---- MODULE Spec2Model ----
(***************************************************************************)
(* A model of the nostr relay event broker: the query compiler             *)
(* (db.rs query_from_filter / query_from_sub), the single Writer task      *)
(* (db.rs db_writer), the historical query worker (db.rs db_query) and the *)
(* per-connection handler loop (main.rs nostr_server).                     *)
(*                                                                         *)
(* Strings of hex characters are sequences of nibbles 0..15; a decoded     *)
(* blob is a sequence of bytes 0..255.                                     *)
(***************************************************************************)
EXTENDS Integers, Sequences, FiniteSets, TLC

VARIABLES
    \* ---- HexSearch compilation (SpecHex) ----
    hsPrefix,       \* the hex token handed to hex_range
    hsPhase,        \* "input" | "compiled"
    hsIdMatch,      \* keys selected by the compiled event_hash clause
    hsAuthMatch,    \* keys selected by the compiled author clause (as author)
    \* ---- the store ----
    event_table,    \* the event table, a row's id being its position
    tag_table,      \* the tag table
    user_verification, \* pubkey -> its latest verification row: "valid" | "invalid" | "none"
    database,       \* the committed database: user_version, tables, columns, indexes
    mig,            \* the run of upgrade_db: its position and its open transaction
    \* ---- one filter compiled and run against the store (SpecFilter) ----
    qfFilter,       \* the filter of the last query
    qfPhase,        \* "idle" | "queried" | "failed"
    qfResult,       \* the rows the last query returned (event contents)
    \* ---- the relay (Spec, SpecWriter) ----
    settings,       \* configuration: allow-list, identity verification mode, rate limit
    shutdown_sent,  \* the shutdown signal has been broadcast
    event_rx,       \* the Writer's ingest queue of submitted events
    bcast,          \* every event published on the broadcast bus, in order
    optimize_counter,
    writer_pc,      \* "top" (loop head) | "recv" (blocking_recv) | "sleep" (rate limit)
                    \* | "stopped" (returned Ok) | "failed" (returned Err)
    processed,      \* history: what the Writer did with each submission
    metadata_tx,    \* the metadata events forwarded to the identity verifier
    limiter,        \* the number of cells the rate limiter was asked for
    submitted,      \* history: the events of the EVENT frames, in order
    notice_rx,      \* the connection's notice channel
    conn_open,      \* the connection handler is in its loop
    subscriptions,  \* conn: sub_id -> Option<Subscription>
    running_queries,\* sub_id -> Option<query worker holding the one-shot receiver>
    query_rx,       \* the connection's query result channel
    clock,          \* the time, and since when query_rx has been full
    bcast_pos,      \* how many broadcast events the handler has received
    notices_out,    \* history: the NOTICE messages sent to the client, in order
    sub_log,        \* history per sub_id: what was sent under it (see SubLog0)
    closes,         \* history: number of CLOSE frames consumed
    last_message_time, \* Instant of the last item the websocket stream yielded
    ping_interval,  \* the deadline of the next ping tick
    ws_log,         \* history: the frames consumed and the ping ticks, with their times
    workers         \* the query workers spawned by db_query, in spawn order

hexVars == <<hsPrefix, hsPhase, hsIdMatch, hsAuthMatch>>

migVars == <<database, mig>>

storeVars == <<event_table, tag_table, user_verification, migVars>>

qfVars == <<qfFilter, qfPhase, qfResult>>

writerVars ==
    <<event_rx, bcast, optimize_counter, writer_pc, processed, metadata_tx, limiter, submitted>>

pingVars == <<last_message_time, ping_interval, ws_log>>

connVars ==
    <<conn_open, subscriptions, running_queries, bcast_pos, notices_out, sub_log, closes,
      pingVars>>

chanVars == <<query_rx, clock>>

relayVars == <<settings, shutdown_sent, writerVars, notice_rx, connVars, chanVars, workers>>

vars == <<hexVars, storeVars, qfVars, relayVars>>

(***************************************************************************)
(* Bounds.  KeyBytes stands for the 32-byte length of event ids and        *)
(* pubkeys.                                                                *)
(***************************************************************************)
KeyBytes == 2

KeyNibbles == 2 * KeyBytes

\* submissions (MaxSubmit in SpecWriter, MaxLive next to the query workers
\* of Spec), REQ frames and CLOSE frames a run may contain
MaxSubmit == 2
MaxLive == 1
MaxReq == 2
MaxClose == 1

\* the capacity of the query result channel (256) and of the notice channel
\* (32), and the number of rows between two polls of the cancellation
\* one-shot (100), scaled down
QueryCap == 1
NoticeCap == 1
BatchSize == 2

\* the capacity of the broadcast bus (settings.limits.broadcast_buffer) and
\* the submissions of a run that overruns it
BcastCap == 1
MaxBus == 3

\* the slow-consumer cutoff of db_query (5 s) in steps of its 100 ms retry,
\* scaled down, and the time a timed run is followed for
AbortCutoff == 2
MaxTime == 3

\* the ping interval (5 min) as the unit of time of a timed run, and
\* max_quiet_time (20 min) scaled down
PingDur == 1
MaxQuietTime == 1

\* How many persisted events before optimization is triggered
EVENT_COUNT_OPTIMIZE_TRIGGER == 500

\* The hex digits tokens and keys are drawn from: 0, 1, e, f.
HexDigits == {0, 1, 14, 15}

\* SQL NULL, distinct from every blob (bytes are 0..255)
NULL == <<-1>>

(***************************************************************************)
(* Hex strings and blobs                                                   *)
(***************************************************************************)
RECURSIVE SeqsUpTo(_, _)
\* all sequences over S of length 0..n
SeqsUpTo(S, n) ==
    IF n = 0 THEN {<<>>}
    ELSE LET shorter == SeqsUpTo(S, n - 1)
         IN  shorter \cup {Append(s, x) : s \in {t \in shorter : Len(t) = n - 1}, x \in S}

SeqsOfLen(S, n) == {s \in SeqsUpTo(S, n) : Len(s) = n}

Keys == SeqsOfLen(HexDigits, KeyNibbles)

HexPrefixes == SeqsUpTo(HexDigits, KeyNibbles) \ {<<>>}

\* s begins with p (both hex strings)
IsPrefixOf(p, s) == Len(p) <= Len(s) /\ SubSeq(s, 1, Len(p)) = p

is_hex(s) == \A i \in 1..Len(s) : s[i] \in 0..15

\* hex::decode of an even-length hex string
hex_decode(s) == [i \in 1..(Len(s) \div 2) |-> s[2 * i - 1] * 16 + s[2 * i]]

is_all_fs(s) == \A i \in 1..Len(s) : s[i] = 15

RECURSIVE IncrementUpper(_, _, _)
\* the successor of the (padded) prefix, carried from the last byte upwards;
\* for an odd token only the first character of the last byte is bumped.
IncrementUpper(upper, byte_len, odd) ==
    IF byte_len = 0 THEN upper
    ELSE LET b == upper[byte_len]
         IN  IF b = 255
               THEN IncrementUpper([upper EXCEPT ![byte_len] = 0], byte_len - 1, odd)
             ELSE IF odd
               THEN IF b < 240
                      THEN [upper EXCEPT ![byte_len] = b + 16]
                      ELSE IncrementUpper([upper EXCEPT ![byte_len] = 0], byte_len - 1, FALSE)
             ELSE [upper EXCEPT ![byte_len] = b + 1]

\* HexSearch for a token: none | Exact | Range | LowerOnly
hex_range(s) ==
    IF ~is_hex(s) \/ Len(s) > KeyNibbles
      THEN [variant |-> "None"]
    ELSE IF Len(s) = KeyNibbles
      THEN [variant |-> "Exact", ex |-> hex_decode(s)]
    ELSE LET odd  == Len(s) % 2 # 0
             base == hex_decode(IF odd THEN Append(s, 0) ELSE s)
         IN  IF is_all_fs(s)
               THEN [variant |-> "LowerOnly", lower |-> base]
               ELSE [variant |-> "Range", lower |-> base,
                     upper |-> IncrementUpper(base, Len(base), odd)]

RECURSIVE BlobLess(_, _)
\* SQLite's ordering of two blobs: bytewise, a proper prefix sorting first
BlobLess(a, b) ==
    IF b = <<>> THEN FALSE
    ELSE IF a = <<>> THEN TRUE
    ELSE IF a[1] # b[1] THEN a[1] < b[1]
    ELSE BlobLess(Tail(a), Tail(b))

\* SQL three-valued comparisons: a NULL operand makes the comparison unknown,
\* which a WHERE clause treats as not selected.
SqlEq(col, param) == col # NULL /\ col = param
SqlGt(col, param) == col # NULL /\ BlobLess(param, col)
SqlLt(col, param) == col # NULL /\ BlobLess(col, param)

(***************************************************************************)
(* Events.  An Option<T> is <<>> (None) or <<v>> (Some(v)).  Characters of *)
(* a string are 0..15 for the lowercase hex digits and NonHexChar for any  *)
(* other character.                                                        *)
(***************************************************************************)
NonHexChar == 16

\* a full-length key: first hex digit a, every other digit b
MkKey(a, b) == [i \in 1..KeyNibbles |-> IF i = 1 THEN a ELSE b]

KindMetadata == 0
KindContacts == 3

EphemeralLow == 20000
EphemeralHigh == 30000
ReplaceableLow == 10000
ReplaceableHigh == 20000

\* The events clients submit.  Event 2 carries a hex tag and a text tag and
\* is delegated by the author of event 1; events 3 and 4 are a replaceable
\* pair (same author and kind); event 5 is ephemeral.
EventPool ==
    << [id |-> MkKey(1, 0), pubkey |-> MkKey(14, 1), delegated_by |-> <<>>,
        created_at |-> 1, kind |-> 1, tags |-> <<>>],
       [id |-> MkKey(1, 15), pubkey |-> MkKey(15, 15), delegated_by |-> <<MkKey(14, 1)>>,
        created_at |-> 2, kind |-> 1,
        tags |-> << <<"e", <<1, 0>> >>, <<"p", <<NonHexChar>> >>, <<"e", <<1>> >> >>],
       [id |-> MkKey(14, 0), pubkey |-> MkKey(14, 1), delegated_by |-> <<>>,
        created_at |-> 2, kind |-> KindContacts, tags |-> <<>>],
       [id |-> MkKey(14, 1), pubkey |-> MkKey(14, 1), delegated_by |-> <<>>,
        created_at |-> 3, kind |-> KindContacts, tags |-> << <<"e", <<1, 0>> >> >>],
       [id |-> MkKey(15, 0), pubkey |-> MkKey(14, 1), delegated_by |-> <<>>,
        created_at |-> 3, kind |-> 20001, tags |-> <<>>],
       [id |-> MkKey(15, 1), pubkey |-> MkKey(15, 15), delegated_by |-> <<>>,
        created_at |-> 4, kind |-> KindMetadata, tags |-> <<>>] >>

EventIds == 1..Len(EventPool)

Pubkeys == {Ev0.pubkey : Ev0 \in {EventPool[e] : e \in EventIds}}

Ev(e) == EventPool[e]

is_ephemeral(kind) == kind >= EphemeralLow /\ kind < EphemeralHigh

is_kind_metadata(kind) == kind = KindMetadata

is_replaceable(kind) ==
    kind = KindContacts \/ (kind >= ReplaceableLow /\ kind < ReplaceableHigh)

is_lower_hex(s) == \A i \in 1..Len(s) : s[i] \in 0..15

\* the compiler searches a tag value among the blobs when it is even-length
\* lowercase hex
IsHexTagValue(v) == (Len(v) % 2 = 0) /\ is_lower_hex(v)

\* a store that keeps every lowercase hex value as a blob
StoreAsBlobAnyLength(tag_val) == is_lower_hex(tag_val)

\* the store inserts a tag value as a blob when it can be restored losslessly
StoreAsBlob(tag_val) == (Len(tag_val) % 2 = 0) /\ is_lower_hex(tag_val)

(***************************************************************************)
(* The store: the event table and the tag table.  A row's id is its        *)
(* position in the table.                                                  *)
(***************************************************************************)
\* a schema whose event_hash index is not unique: the insert of a stored
\* event_hash is then accepted again
event_hash_index_plain == FALSE

\* CREATE UNIQUE INDEX event_hash_index ON event(event_hash)
event_hash_index_unique == TRUE

EventRow(e) ==
    [event_hash |-> hex_decode(Ev(e).id),
     author |-> hex_decode(Ev(e).pubkey),
     delegated_by |-> IF Ev(e).delegated_by = <<>> THEN NULL
                      ELSE hex_decode(Ev(e).delegated_by[1]),
     created_at |-> Ev(e).created_at,
     kind |-> Ev(e).kind,
     hidden |-> FALSE,
     content |-> e]

\* the tag rows of event e stored under row id: single-letter names only,
\* value XOR value_hex
TagRows(e, row_id) ==
    LET ts == Ev(e).tags
        Row(i) == IF StoreAsBlob(ts[i][2])
                    THEN [event_id |-> row_id, name |-> ts[i][1], value |-> NULL,
                          value_hex |-> hex_decode(ts[i][2])]
                    ELSE [event_id |-> row_id, name |-> ts[i][1], value |-> ts[i][2],
                          value_hex |-> NULL]
    IN  [i \in 1..Len(ts) |-> Row(i)]

\* the insert conflicts with a stored row
InsertConflicts(events, e) ==
    event_hash_index_unique
        /\ \E r \in 1..Len(events) : events[r].event_hash = hex_decode(Ev(e).id)

\* write_event: the number of rows the insert changed, and the tables after
write_event(events, tagrows, e) ==
    IF InsertConflicts(events, e)
      THEN [updated |-> 0, events |-> events, tags |-> tagrows]
    ELSE LET row_id == Len(events) + 1
             same(r) == events[r].kind = Ev(e).kind
                          /\ events[r].author = hex_decode(Ev(e).pubkey)
             newest  == \A r \in 1..Len(events) :
                           same(r) => events[r].created_at <= Ev(e).created_at
             hide    == is_replaceable(Ev(e).kind) /\ newest
             older   == [r \in 1..Len(events) |->
                           IF hide /\ same(r) THEN [events[r] EXCEPT !.hidden = TRUE]
                           ELSE events[r]]
         IN  [updated |-> 1,
              events |-> Append(older, EventRow(e)),
              tags |-> tagrows \o TagRows(e, row_id)]

(***************************************************************************)
(* The schema and its migrations (repo/sqlite_migration.rs).  A database   *)
(* is its user_version, its tables, the columns of the event table that    *)
(* some version added, its indexes, and whether UPDATE event SET           *)
(* hidden=FALSE has run; the tag rows are the tag table.  A migration step *)
(* is the list of its statements.                                          *)
(***************************************************************************)
\* Latest database version
DB_VERSION == 11

\* a database of a later build, and how often upgrade_db is run
NewerVersion == DB_VERSION + 1
MaxRuns == 2

Stmt(op, name, on, v) == [op |-> op, name |-> name, on |-> on, v |-> v]

AddColumn(name) == Stmt("add_column", name, "event", 0)
UpdateHidden == Stmt("update_hidden", "", "event", 0)
CreateTable(name) == Stmt("create_table", name, "", 0)
DropTable(name) == Stmt("drop_table", name, "", 0)
CreateIndex(name, on) == Stmt("create_index", name, on, 0)
DropIndex(name) == Stmt("drop_index", name, "", 0)
UserVersion(v) == Stmt("user_version", "", "", v)
Begin == Stmt("begin", "", "", 0)
Commit == Stmt("commit", "", "", 0)
LoadRefs == Stmt("load_refs", "", "tag", 0)
DeleteTags == Stmt("delete_tags", "", "tag", 0)
RebuildTags == Stmt("rebuild_tags", "", "tag", 0)
\* reindex, pragma optimize, VACUUM: the schema and the rows stay
Maintain(name) == Stmt("maintain", name, "", 0)

\* INIT_SQL
INIT_SQL ==
    << UserVersion(DB_VERSION),
       CreateTable("event"),
       CreateIndex("event_hash_index", "event"),
       CreateIndex("author_index", "event"),
       CreateIndex("created_at_index", "event"),
       CreateIndex("delegated_by_index", "event"),
       CreateIndex("event_composite_index", "event"),
       CreateTable("tag"),
       CreateIndex("tag_val_index", "tag"),
       CreateIndex("tag_val_hex_index", "tag"),
       CreateIndex("tag_composite_index", "tag"),
       CreateIndex("tag_name_eid_index", "tag"),
       CreateTable("user_verification"),
       CreateIndex("user_verification_name_index", "user_verification"),
       CreateIndex("user_verification_event_index", "user_verification") >>

mig_1_to_2 == << AddColumn("hidden"), UpdateHidden, UserVersion(2) >>

\* the table and the version are written by one execute, the rows of
\* event_ref and pubkey_ref are then loaded in a transaction
mig_2_to_3 == << CreateTable("tag"), UserVersion(3), Begin, LoadRefs, Commit >>

mig_3_to_4 ==
    << CreateTable("user_verification"),
       CreateIndex("user_verification_name_index", "user_verification"),
       CreateIndex("user_verification_event_index", "user_verification"),
       UserVersion(4) >>

mig_4_to_5 == << DropTable("event_ref"), DropTable("pubkey_ref"), UserVersion(5) >>

mig_5_to_6 ==
    << Begin, DeleteTags, RebuildTags, UserVersion(6), Commit, Maintain("VACUUM") >>

mig_6_to_7 ==
    << AddColumn("delegated_by"), CreateIndex("delegated_by_index", "event"), UserVersion(7) >>

mig_7_to_8 ==
    << DropIndex("created_at_index"), DropIndex("kind_index"),
       CreateIndex("event_composite_index", "event"), UserVersion(8) >>

mig_8_to_9 ==
    << CreateIndex("created_at_index", "event"),
       CreateIndex("event_composite_index", "event"), UserVersion(9) >>

mig_9_to_10 == << CreateIndex("tag_composite_index", "tag"), UserVersion(10) >>

mig_10_to_11 ==
    << CreateIndex("tag_name_eid_index", "tag"), Maintain("reindex"),
       Maintain("pragma optimize"), UserVersion(DB_VERSION) >>

\* the step upgrade_db runs while curr_version is v, and what it returns
StepOf(v) ==
    CASE v = 0  -> INIT_SQL
      [] v = 1  -> mig_1_to_2
      [] v = 2  -> mig_2_to_3
      [] v = 3  -> mig_3_to_4
      [] v = 4  -> mig_4_to_5
      [] v = 5  -> mig_5_to_6
      [] v = 6  -> mig_6_to_7
      [] v = 7  -> mig_7_to_8
      [] v = 8  -> mig_8_to_9
      [] v = 9  -> mig_9_to_10
      [] v = 10 -> mig_10_to_11

\* a chain in which mig_3_to_4 reports version 5, so that mig_4_to_5 is skipped
StepReturnsSkipping(v) == IF v = 0 THEN DB_VERSION ELSE IF v = 3 THEN 5 ELSE v + 1

StepReturns(v) == IF v = 0 THEN DB_VERSION ELSE v + 1

\* the tag rows mig_5_to_6 inserts for the first n rows of the event table
RECURSIVE RebuiltTags(_, _)
RebuiltTags(events, n) ==
    IF n = 0 THEN <<>>
    ELSE RebuiltTags(events, n - 1) \o TagRows(events[n].content, n)

\* the tag rows mig_2_to_3 inserts for the first n rows of the event table:
\* event_ref and pubkey_ref hold the e and p tags whose value is a key
RECURSIVE RefTags(_, _)
RefTags(events, n) ==
    IF n = 0 THEN <<>>
    ELSE LET rows == TagRows(events[n].content, n)
             IsRef(r) == r.name \in {"e", "p"} /\ r.value_hex # NULL
         IN  RefTags(events, n - 1) \o SelectSeq(rows, IsRef)

\* One statement run on database d with tag rows tags, the row stream of
\* its SELECT ending after upto rows: `while let Some(Ok(row))` leaves the
\* loop at the first row that is an Err.
Exec(st, d, tags, events, upto) ==
    LET Ok(d2, t2) == [ok |-> TRUE, db |-> d2, tags |-> t2]
        Failed == [ok |-> FALSE, db |-> d, tags |-> tags]
    IN  CASE st.op = "user_version" -> Ok([d EXCEPT !.user_version = st.v], tags)
          [] st.op = "create_table" ->
               IF st.name \in d.tables THEN Ok(d, tags)
               ELSE Ok([d EXCEPT !.tables = @ \cup {st.name},
                                 !.event_cols = IF st.name = "event"
                                                  THEN {"hidden", "delegated_by"} ELSE @],
                       tags)
          [] st.op = "drop_table" ->
               Ok([d EXCEPT !.tables = d.tables \ {st.name},
                            !.indexes = {ix \in d.indexes : ix.on # st.name}], tags)
          [] st.op = "create_index" ->
               IF st.on \notin d.tables THEN Failed
               ELSE IF \E ix \in d.indexes : ix.name = st.name THEN Ok(d, tags)
               ELSE Ok([d EXCEPT !.indexes = @ \cup {[name |-> st.name, on |-> st.on]}], tags)
          [] st.op = "drop_index" ->
               Ok([d EXCEPT !.indexes = {ix \in d.indexes : ix.name # st.name}], tags)
          [] st.op = "add_column" ->
               IF "event" \notin d.tables \/ st.name \in d.event_cols THEN Failed
               ELSE Ok([d EXCEPT !.event_cols = @ \cup {st.name}], tags)
          [] st.op = "update_hidden" ->
               IF "hidden" \notin d.event_cols THEN Failed
               ELSE Ok([d EXCEPT !.hidden_filled = TRUE], tags)
          [] st.op = "load_refs" ->
               IF {"event_ref", "pubkey_ref", "tag"} \subseteq d.tables
                 THEN Ok(d, tags \o RefTags(events, upto))
                 ELSE Failed
          [] st.op = "delete_tags" ->
               IF "tag" \in d.tables THEN Ok(d, <<>>) ELSE Failed
          [] st.op = "rebuild_tags" ->
               IF "tag" \in d.tables THEN Ok(d, tags \o RebuiltTags(events, upto)) ELSE Failed
          [] OTHER -> Ok(d, tags)

\* a step run from its first statement to its last without an error
RECURSIVE RunFrom(_, _, _, _)
RunFrom(stmts, d, tags, events) ==
    IF stmts = <<>> THEN [db |-> d, tags |-> tags]
    ELSE LET r == Exec(stmts[1], d, tags, events, Len(events))
         IN  RunFrom(Tail(stmts), r.db, r.tags, events)

\* the effective schema of a database
Schema(d) == [tables |-> d.tables, event_cols |-> d.event_cols, indexes |-> d.indexes]

NoDb == [user_version |-> 0, tables |-> {}, event_cols |-> {}, indexes |-> {},
         hidden_filled |-> FALSE]

\* a database initialised by this build
FreshDb == [RunFrom(INIT_SQL, NoDb, <<>>, <<>>).db EXCEPT !.hidden_filled = TRUE]

\* A version-1 database, as the steps describe it: no hidden column, no tag
\* table, the tables event_ref and pubkey_ref, the index kind_index; it is
\* given every index of the event table that no step creates.
V1Db ==
    [user_version |-> 1,
     tables |-> {"event", "event_ref", "pubkey_ref"},
     event_cols |-> {},
     indexes |-> {[name |-> "event_hash_index", on |-> "event"],
                  [name |-> "author_index", on |-> "event"],
                  [name |-> "created_at_index", on |-> "event"],
                  [name |-> "kind_index", on |-> "event"]},
     hidden_filled |-> FALSE]

\* the run of upgrade_db of a relay that is up: the database was current
MigDone ==
    [pc |-> "done", cur |-> DB_VERSION, stmt |-> 1, tx |-> <<>>,
     at_open |-> [db |-> FreshDb, tags |-> <<>>],
     at_step |-> [db |-> FreshDb, tags |-> <<>>],
     runs |-> 1, from |-> DB_VERSION]

Migrated == database = FreshDb /\ mig = MigDone

(***************************************************************************)
(* The query compiler.  A compiled filter is the list of its AND-combined  *)
(* components, each with its `?` placeholders, and the positional          *)
(* parameter vector.                                                       *)
(***************************************************************************)
RECURSIVE SumSeq(_)
SumSeq(s) == IF s = <<>> THEN 0 ELSE s[1] + SumSeq(Tail(s))

RECURSIVE Flatten(_)
Flatten(ss) == IF ss = <<>> THEN <<>> ELSE ss[1] \o Flatten(Tail(ss))

\* SelectSeq with an index-free test, keeping order
Keep(s, Test(_)) == SelectSeq(s, Test)

\* the HexSearch alternatives of a token list, unparsable tokens dropped
HexSearches(tokens) ==
    LET rs == [i \in 1..Len(tokens) |-> hex_range(tokens[i])]
        Parsed(r) == r.variant # "None"
    IN  Keep(rs, Parsed)

\* a compiler that pushes both lower bounds of a range before both upper bounds
AuthParamsBoundsGrouped(search) ==
    CASE search.variant = "Exact"     -> <<search.ex, search.ex>>
      [] search.variant = "Range"     -> <<search.lower, search.lower,
                                            search.upper, search.upper>>
      [] search.variant = "LowerOnly" -> <<search.lower, search.lower>>

\* parameters pushed for one author alternative
AuthParams(search) ==
    CASE search.variant = "Exact"     -> <<search.ex, search.ex>>
      [] search.variant = "Range"     -> <<search.lower, search.upper,
                                            search.lower, search.upper>>
      [] search.variant = "LowerOnly" -> <<search.lower, search.lower>>

\* parameters pushed for one id alternative
IdParams(search) ==
    CASE search.variant = "Exact"     -> <<search.ex>>
      [] search.variant = "Range"     -> <<search.lower, search.upper>>
      [] search.variant = "LowerOnly" -> <<search.lower>>

\* a compiler that leaves an empty authors list out of the predicate
AuthorsPartSkipEmpty(f) ==
    IF f.authors = <<>> THEN [components |-> <<>>, params |-> <<>>]
    ELSE LET authvec == f.authors[1]
             ss == HexSearches(authvec)
         IN  IF authvec # <<>>
               THEN [components |-> <<[t |-> "authors",
                                       alts |-> [i \in 1..Len(ss) |-> ss[i].variant]]>>,
                     params |-> Flatten([i \in 1..Len(ss) |-> AuthParams(ss[i])])]
               ELSE [components |-> <<>>, params |-> <<>>]

\* the components and parameters of the authors option
AuthorsPart(f) ==
    IF f.authors = <<>> THEN [components |-> <<>>, params |-> <<>>]
    ELSE LET authvec == f.authors[1]
             ss == HexSearches(authvec)
         IN  IF authvec # <<>>
               THEN [components |-> <<[t |-> "authors",
                                       alts |-> [i \in 1..Len(ss) |-> ss[i].variant]]>>,
                     params |-> Flatten([i \in 1..Len(ss) |-> AuthParams(ss[i])])]
               ELSE [components |-> <<[t |-> "false"]>>, params |-> <<>>]

\* the component of the kinds option; kinds are inlined as integers
KindsPart(f) ==
    IF f.kinds = <<>> THEN [components |-> <<>>, params |-> <<>>]
    ELSE [components |-> <<[t |-> "kinds", kinds |-> f.kinds[1]]>>, params |-> <<>>]

\* the components and parameters of the ids option
IdsPart(f) ==
    IF f.ids = <<>> THEN [components |-> <<>>, params |-> <<>>]
    ELSE LET idvec == f.ids[1]
             ss == HexSearches(idvec)
         IN  IF idvec # <<>>
               THEN [components |-> <<[t |-> "ids",
                                       alts |-> [i \in 1..Len(ss) |-> ss[i].variant]]>>,
                     params |-> Flatten([i \in 1..Len(ss) |-> IdParams(ss[i])])]
               ELSE [components |-> <<[t |-> "false"]>>, params |-> <<>>]

\* one tag clause: name=? AND (value IN (?..) OR value_hex IN (?..))
TagPart(key, val) ==
    LET IsBlob(v) == IsHexTagValue(v)
        IsStr(v)  == ~IsHexTagValue(v)
        str_vals  == Keep(val, IsStr)
        hexes     == Keep(val, IsBlob)
        blob_vals == [i \in 1..Len(hexes) |-> hex_decode(hexes[i])]
    IN  [components |-> <<[t |-> "tag", nstr |-> Len(str_vals), nblob |-> Len(blob_vals)]>>,
         params |-> <<key>> \o str_vals \o blob_vals]

TagsPart(f) ==
    IF f.tags = <<>> THEN [components |-> <<>>, params |-> <<>>]
    ELSE LET map == f.tags[1]
             parts == [i \in 1..Len(map) |-> TagPart(map[i][1], map[i][2])]
         IN  [components |-> Flatten([i \in 1..Len(map) |-> parts[i].components]),
              params |-> Flatten([i \in 1..Len(map) |-> parts[i].params])]

SincePart(f) ==
    IF f.since = <<>> THEN [components |-> <<>>, params |-> <<>>]
    ELSE [components |-> <<[t |-> "since", v |-> f.since[1]]>>, params |-> <<>>]

UntilPart(f) ==
    IF f.until = <<>> THEN [components |-> <<>>, params |-> <<>>]
    ELSE [components |-> <<[t |-> "until", v |-> f.until[1]]>>, params |-> <<>>]

\* a compiler that orders every subquery oldest-first
query_from_filter_ascending(f) ==
    IF f.force_no_match
      THEN [empty |-> TRUE, components |-> <<>>, params |-> <<>>,
            order |-> "NONE", limit |-> <<>>]
    ELSE LET parts == <<AuthorsPart(f), KindsPart(f), IdsPart(f), TagsPart(f),
                        SincePart(f), UntilPart(f)>>
         IN  [empty |-> FALSE,
              components |-> Flatten([i \in 1..Len(parts) |-> parts[i].components]),
              params |-> Flatten([i \in 1..Len(parts) |-> parts[i].params]),
              order |-> "ASC",
              limit |-> f.limit]

\* the subquery of one filter
query_from_filter(f) ==
    IF f.force_no_match
      THEN [empty |-> TRUE, components |-> <<>>, params |-> <<>>,
            order |-> "NONE", limit |-> <<>>]
    ELSE LET parts == <<AuthorsPart(f), KindsPart(f), IdsPart(f), TagsPart(f),
                        SincePart(f), UntilPart(f)>>
         IN  [empty |-> FALSE,
              components |-> Flatten([i \in 1..Len(parts) |-> parts[i].components]),
              params |-> Flatten([i \in 1..Len(parts) |-> parts[i].params]),
              order |-> IF f.limit # <<>> THEN "DESC" ELSE "ASC",
              limit |-> f.limit]

(***************************************************************************)
(* Evaluation of a compiled query by the store.  Parameters are bound to   *)
(* the `?` placeholders by position.                                       *)
(***************************************************************************)
\* one alternative of the ids clause with its bound parameters:
\* "event_hash=?", "(event_hash>? AND event_hash<?)" or "event_hash>?"
IdAltMatches(variant, ps, event_hash) ==
    CASE variant = "Exact"     -> SqlEq(event_hash, ps[1])
      [] variant = "Range"     -> SqlGt(event_hash, ps[1]) /\ SqlLt(event_hash, ps[2])
      [] variant = "LowerOnly" -> SqlGt(event_hash, ps[1])
      [] OTHER                 -> FALSE

\* one alternative of the authors clause with its bound parameters
AuthAltMatches(variant, ps, author, delegated_by) ==
    CASE variant = "Exact"     -> SqlEq(author, ps[1]) \/ SqlEq(delegated_by, ps[2])
      [] variant = "Range"     -> (SqlGt(author, ps[1]) /\ SqlLt(author, ps[2]))
                                    \/ (SqlGt(delegated_by, ps[3]) /\ SqlLt(delegated_by, ps[4]))
      [] variant = "LowerOnly" -> SqlGt(author, ps[1]) \/ SqlGt(delegated_by, ps[2])
      [] OTHER                 -> FALSE

IdSearchMatches(search, event_hash) ==
    IdAltMatches(search.variant, IdParams(search), event_hash)

AuthSearchMatches(search, author, delegated_by) ==
    AuthAltMatches(search.variant, AuthParams(search), author, delegated_by)

\* the number of placeholders of one alternative
AuthAltArity(variant) == IF variant = "Range" THEN 4 ELSE 2
IdAltArity(variant) == IF variant = "Range" THEN 2 ELSE 1

\* the number of `?` placeholders in a component
Placeholders(c) ==
    CASE c.t = "authors" -> SumSeq([i \in 1..Len(c.alts) |-> AuthAltArity(c.alts[i])])
      [] c.t = "ids"     -> SumSeq([i \in 1..Len(c.alts) |-> IdAltArity(c.alts[i])])
      [] c.t = "tag"     -> 1 + c.nstr + c.nblob
      [] OTHER           -> 0

\* the statement prepares: no parenthesised group is empty, and binds: one
\* parameter per placeholder
Prepares(q) ==
    /\ \A i \in 1..Len(q.components) :
          q.components[i].t \in {"authors", "ids"} => q.components[i].alts # <<>>
    /\ SumSeq([i \in 1..Len(q.components) |-> Placeholders(q.components[i])])
          = Len(q.params)

\* the parameters before the k-th alternative of a component
AltOffset(alts, k, Arity(_)) == SumSeq([i \in 1..(k - 1) |-> Arity(alts[i])])

\* does a component select the event row with the given id
ComponentHolds(c, ps, row, row_id, tagrows) ==
    CASE c.t = "false"   -> FALSE
      [] c.t = "authors" ->
            \E k \in 1..Len(c.alts) :
                LET off == AltOffset(c.alts, k, AuthAltArity)
                IN  AuthAltMatches(c.alts[k],
                                   SubSeq(ps, off + 1, off + AuthAltArity(c.alts[k])),
                                   row.author, row.delegated_by)
      [] c.t = "ids" ->
            \E k \in 1..Len(c.alts) :
                LET off == AltOffset(c.alts, k, IdAltArity)
                IN  IdAltMatches(c.alts[k],
                                 SubSeq(ps, off + 1, off + IdAltArity(c.alts[k])),
                                 row.event_hash)
      [] c.t = "kinds" -> \E i \in 1..Len(c.kinds) : row.kind = c.kinds[i]
      [] c.t = "tag" ->
            \E j \in 1..Len(tagrows) :
                /\ tagrows[j].event_id = row_id
                /\ ~row.hidden
                /\ tagrows[j].name = ps[1]
                /\ \/ \E i \in 2..(1 + c.nstr) : SqlEq(tagrows[j].value, ps[i])
                   \/ \E i \in (2 + c.nstr)..(1 + c.nstr + c.nblob) :
                          SqlEq(tagrows[j].value_hex, ps[i])
      [] c.t = "since" -> row.created_at > c.v
      [] c.t = "until" -> row.created_at < c.v

\* the rows a compiled filter selects: WHERE hidden!=TRUE AND c1 AND c2 ...
SelectedRows(q, events, tagrows) ==
    IF q.empty THEN {}
    ELSE {r \in 1..Len(events) :
            /\ ~events[r].hidden
            /\ \A i \in 1..Len(q.components) :
                  LET off == SumSeq([j \in 1..(i - 1) |-> Placeholders(q.components[j])])
                  IN  ComponentHolds(q.components[i],
                                     SubSeq(q.params, off + 1,
                                            off + Placeholders(q.components[i])),
                                     events[r], r, tagrows)}

RECURSIVE Perms(_)
\* every arrangement of the elements of a finite set
Perms(S) ==
    IF S = {} THEN {<<>>}
    ELSE UNION {{<<x>> \o p : p \in Perms(S \ {x})} : x \in S}

\* ORDER BY e.created_at ASC | DESC: rows with equal created_at in any order
OrderedBy(seq, events, order) ==
    \A i \in 1..(Len(seq) - 1) :
        CASE order = "ASC"  -> events[seq[i]].created_at <= events[seq[i + 1]].created_at
          [] order = "DESC" -> events[seq[i]].created_at >= events[seq[i + 1]].created_at
          [] OTHER          -> TRUE

\* LIMIT n
Limited(seq, limit) ==
    IF limit = <<>> \/ limit[1] >= Len(seq) THEN seq ELSE SubSeq(seq, 1, limit[1])

RECURSIVE Distinct(_)
\* SELECT distinct: later repetitions of a value are dropped
Distinct(seq) ==
    IF seq = <<>> THEN <<>>
    ELSE LET front == Distinct(SubSeq(seq, 1, Len(seq) - 1))
             last  == seq[Len(seq)]
         IN  IF \E i \in 1..Len(front) : front[i] = last THEN front
             ELSE Append(front, last)

\* the possible results of one filter's subquery, as sequences of row ids
FilterResults(q, events, tagrows) ==
    {Limited(p, q.limit) :
        p \in {x \in Perms(SelectedRows(q, events, tagrows)) :
                  OrderedBy(x, events, q.order)}}

\* the subqueries of a subscription, in filter order
query_from_sub(sub) == [i \in 1..Len(sub.filters) |-> query_from_filter(sub.filters[i])]

\* the possible results of a subscription's statement, as sequences of event
\* contents: one SELECT distinct per filter, joined by UNION (which keeps no
\* order across filters)
SubResults(sub, events, tagrows) ==
    LET qs == query_from_sub(sub)
        Contents(seq) == [i \in 1..Len(seq) |-> events[seq[i]].content]
        Res(i) == FilterResults(qs[i], events, tagrows)
        Choices == {ch \in [1..Len(qs) -> UNION {Res(i) : i \in 1..Len(qs)}] :
                       \A i \in 1..Len(qs) : ch[i] \in Res(i)}
        Union(ch) == UNION {{Contents(ch[i])[k] : k \in 1..Len(ch[i])} : i \in 1..Len(qs)}
    IN  IF Len(qs) = 1
          THEN {Distinct(Contents(p)) : p \in Res(1)}
          ELSE UNION {Perms(Union(ch)) : ch \in Choices}

\* the statement of a subscription prepares and binds
SubPrepares(sub) ==
    \A i \in 1..Len(sub.filters) : Prepares(query_from_filter(sub.filters[i]))

(***************************************************************************)
(* SpecHex: a token is compiled and its clause evaluated on every key       *)
(***************************************************************************)
\* the parts of the state a specification does not use stay as they start
HexIdle == hsPrefix = <<>> /\ hsPhase = "off" /\ hsIdMatch = {} /\ hsAuthMatch = {}

\* no pubkey has a verification row
NoVerification == [k \in Pubkeys |-> "none"]

EmptyStore ==
    event_table = <<>> /\ tag_table = <<>> /\ user_verification = NoVerification /\ Migrated

NoFilter ==
    [ids |-> <<>>, authors |-> <<>>, kinds |-> <<>>, tags |-> <<>>, since |-> <<>>,
     until |-> <<>>, limit |-> <<>>, force_no_match |-> FALSE]

QfIdle == qfFilter = NoFilter /\ qfPhase = "idle" /\ qfResult = <<>>

SubIds == {"s1", "s2"}

\* What the handler has sent under one sub_id:
\*   closed            a CLOSE was consumed and no REQ since
\*   live_after_close  live EVENT messages sent while closed
\*   hist_after_close  historical EVENT messages sent while closed
\*   eose_sent         an EOSE has been sent under the sub_id
\*   live_before_eose  a live EVENT was sent while eose_sent was false
\*   live              the bus positions of the live EVENT messages sent
SubLog0 ==
    [closed |-> FALSE, live_after_close |-> 0, hist_after_close |-> 0,
     eose_sent |-> FALSE, live_before_eose |-> FALSE, live |-> <<>>]

\* full_since of a result channel that has room
NotFull == 0 - 1

\* the clock of a run in which time is not followed: a worker that finds the
\* channel full may then give up at any moment
Untimed == [timed |-> FALSE, now |-> 0, full_since |-> NotFull]

\* the clock after the result channel has become q: full_since is the time
\* from which the channel has been full without a break
Stamp(q) ==
    IF ~clock.timed THEN clock
    ELSE [clock EXCEPT !.full_since = IF Len(q) < QueryCap THEN NotFull
                                      ELSE IF @ = NotFull THEN clock.now
                                      ELSE @]

\* no allow-list, identity verification off, no rate limit
DefaultSettings ==
    [pubkey_whitelist |-> <<>>, nip05_active |-> FALSE, nip05_enabled |-> FALSE,
     rate_limited |-> FALSE]

\* the relay right after start-up, with one client connected
RelayAt(conf, clk) ==
    /\ settings = conf
    /\ metadata_tx = <<>>
    /\ limiter = 0
    /\ submitted = <<>>
    /\ shutdown_sent = FALSE
    /\ event_rx = <<>>
    /\ bcast = <<>>
    /\ optimize_counter = 0
    /\ writer_pc = "top"
    /\ processed = <<>>
    /\ notice_rx = <<>>
    /\ conn_open = TRUE
    /\ subscriptions = [s \in SubIds |-> <<>>]
    /\ running_queries = [s \in SubIds |-> <<>>]
    /\ query_rx = <<>>
    /\ clock = clk
    /\ bcast_pos = 0
    /\ notices_out = <<>>
    /\ sub_log = [s \in SubIds |-> SubLog0]
    /\ closes = 0
    /\ last_message_time = clk.now
    /\ ping_interval = clk.now + PingDur
    /\ ws_log = <<>>
    /\ workers = <<>>

RelayStart(conf) == RelayAt(conf, Untimed)

RelayIdle == RelayStart(DefaultSettings)

HexInit ==
    /\ hsPrefix \in HexPrefixes
    /\ hsPhase = "input"
    /\ hsIdMatch = {}
    /\ hsAuthMatch = {}
    /\ EmptyStore
    /\ QfIdle
    /\ RelayIdle

HexCompile ==
    /\ hsPhase = "input"
    /\ hsPhase' = "compiled"
    /\ hsIdMatch' = {k \in Keys : IdSearchMatches(hex_range(hsPrefix), hex_decode(k))}
    /\ hsAuthMatch' = {k \in Keys :
                          AuthSearchMatches(hex_range(hsPrefix), hex_decode(k), NULL)}
    /\ UNCHANGED <<hsPrefix, storeVars, qfVars, relayVars>>

HexNext == HexCompile

SpecHex == HexInit /\ [][HexNext]_vars

\* C8: the clause compiled from a hex prefix selects exactly the keys whose
\* hex form begins with the prefix, for the ids clause and the authors clause.
C8_HexSearchExact ==
    hsPhase = "compiled" =>
        /\ hsIdMatch = {k \in Keys : IsPrefixOf(hsPrefix, k)}
        /\ hsAuthMatch = {k \in Keys : IsPrefixOf(hsPrefix, k)}

(***************************************************************************)
(* Live matching of a broadcast event against a filter, and the meaning of *)
(* "event e satisfies filter f".                                           *)
(***************************************************************************)
interested_in_event(f, e) ==
    /\ ~f.force_no_match
    /\ f.ids # <<>> => \E i \in 1..Len(f.ids[1]) : IsPrefixOf(f.ids[1][i], Ev(e).id)
    /\ f.authors # <<>> =>
          \E i \in 1..Len(f.authors[1]) :
              \/ IsPrefixOf(f.authors[1][i], Ev(e).pubkey)
              \/ /\ Ev(e).delegated_by # <<>>
                 /\ IsPrefixOf(f.authors[1][i], Ev(e).delegated_by[1])
    /\ f.kinds # <<>> => \E i \in 1..Len(f.kinds[1]) : Ev(e).kind = f.kinds[1][i]
    /\ f.tags # <<>> =>
          \A i \in 1..Len(f.tags[1]) :
              \E j \in 1..Len(Ev(e).tags) :
                  /\ Ev(e).tags[j][1] = f.tags[1][i][1]
                  /\ \E k \in 1..Len(f.tags[1][i][2]) : f.tags[1][i][2][k] = Ev(e).tags[j][2]
    /\ f.since # <<>> => Ev(e).created_at > f.since[1]
    /\ f.until # <<>> => Ev(e).created_at < f.until[1]

(***************************************************************************)
(* SpecFilter: events are written to the store and single filters are      *)
(* compiled and run against it.                                            *)
(***************************************************************************)
ShortId == <<1>>
NearFullId == SubSeq(MkKey(1, 0), 1, KeyNibbles - 1)
FullId == MkKey(14, 1)
ShortAuthor == <<14>>
AllFsAuthor == <<15>>

IdsOpts == {<<>>, << <<ShortId>> >>, << <<NearFullId, FullId>> >>}
AuthorsOpts == {<<>>, << <<ShortAuthor>> >>, << <<AllFsAuthor>> >>}
KindsOpts == {<<>>, << <<1>> >>, << <<3, 1>> >>}
TagsOpts == {<<>>,
             << << <<"e", << <<1, 0>> >> >> >> >>,
             << << <<"e", << <<1>>, <<0, 0>> >> >>, <<"p", << <<NonHexChar>> >> >> >> >>}
SinceOpts == {<<>>, <<1>>}
UntilOpts == {<<>>, <<3>>}
LimitOpts == {<<>>, <<1>>}

Filters ==
    [ids : IdsOpts, authors : AuthorsOpts, kinds : KindsOpts, tags : TagsOpts,
     since : SinceOpts, until : UntilOpts, limit : LimitOpts, force_no_match : BOOLEAN]

QfInit ==
    /\ HexIdle
    /\ EmptyStore
    /\ QfIdle
    /\ RelayIdle

\* an event is persisted
QfWrite(e) ==
    /\ qfPhase = "idle"
    /\ ~is_ephemeral(Ev(e).kind)
    /\ LET w == write_event(event_table, tag_table, e)
       IN  /\ w.updated = 1
           /\ event_table' = w.events
           /\ tag_table' = w.tags
    /\ UNCHANGED <<user_verification, migVars, qfVars, hexVars, relayVars>>

\* the subscription {f} is compiled and its statement run
QfQuery(f) ==
    /\ qfPhase = "idle"
    /\ qfFilter' = f
    /\ IF SubPrepares([filters |-> <<f>>])
         THEN /\ qfPhase' = "queried"
              /\ qfResult' \in SubResults([filters |-> <<f>>], event_table, tag_table)
         ELSE /\ qfPhase' = "failed"
              /\ qfResult' = <<>>
    /\ UNCHANGED <<storeVars, hexVars, relayVars>>

\* the result has been consumed
QfReset ==
    /\ qfPhase # "idle"
    /\ qfPhase' = "idle"
    /\ qfFilter' = NoFilter
    /\ qfResult' = <<>>
    /\ UNCHANGED <<storeVars, hexVars, relayVars>>

\* the events written before the query
FilterPool == 1..5

QfNext ==
    \/ \E e \in FilterPool : QfWrite(e)
    \/ \E f \in Filters : QfQuery(f)
    \/ QfReset

SpecFilter == QfInit /\ [][QfNext]_vars

\* the stored event_table
Persisted == {event_table[r].content : r \in 1..Len(event_table)}

Hidden(e) == \E r \in 1..Len(event_table) : event_table[r].content = e /\ event_table[r].hidden

InResult(e) == \E i \in 1..Len(qfResult) : qfResult[i] = e

\* C7: the replay of {F} contains a persisted event E iff E satisfies F and
\* E is not hidden (for a filter without a limit, which would truncate it).
C7_ReplayIffSatisfies ==
    (qfPhase = "queried" /\ qfFilter.limit = <<>>) =>
        \A e \in Persisted :
            InResult(e) <=> (interested_in_event(qfFilter, e) /\ ~Hidden(e))

(***************************************************************************)
(* The relay: the Writer, one connection handler and its query workers.    *)
(***************************************************************************)
\* the events the client submits and the subscriptions it requests
SubmitPool == {1, 5}

ReqFilters ==
    {NoFilter,
     [NoFilter EXCEPT !.kinds = << <<3>> >>]}

\* a sub_id longer than the handler accepts
LongSubId == "too-long"

\* the store after the events of es have been written, in order
RECURSIVE StoreOf(_)
StoreOf(es) ==
    IF es = <<>> THEN [events |-> <<>>, tags |-> <<>>]
    ELSE LET before == StoreOf(SubSeq(es, 1, Len(es) - 1))
             w == write_event(before.events, before.tags, es[Len(es)])
         IN  [events |-> w.events, tags |-> w.tags]

\* the relay opens a database that holds events 1 and 2 of an earlier run
Init ==
    /\ HexIdle
    /\ event_table = StoreOf(<<1, 2>>).events
    /\ tag_table = StoreOf(<<1, 2>>).tags
    /\ user_verification = NoVerification
    /\ Migrated
    /\ QfIdle
    /\ RelayStart(DefaultSettings)

\* the configurations the Writer is run under, each with the verification
\* rows the database holds: the default; an allow-list with passive
\* verification and a rate limit; enforced verification with a valid and an
\* invalid row; enforced verification with a missing row and a rate limit
WriterConfigs ==
    {[settings |-> DefaultSettings, rows |-> NoVerification],
     [settings |-> [pubkey_whitelist |-> <<{MkKey(14, 1)}>>, nip05_active |-> TRUE,
                    nip05_enabled |-> FALSE, rate_limited |-> TRUE],
      rows |-> NoVerification],
     [settings |-> [pubkey_whitelist |-> <<>>, nip05_active |-> TRUE,
                    nip05_enabled |-> TRUE, rate_limited |-> FALSE],
      rows |-> [k \in Pubkeys |-> IF k = MkKey(14, 1) THEN "valid" ELSE "invalid"]],
     [settings |-> [pubkey_whitelist |-> <<>>, nip05_active |-> TRUE,
                    nip05_enabled |-> TRUE, rate_limited |-> TRUE],
      rows |-> [k \in Pubkeys |-> IF k = MkKey(14, 1) THEN "none" ELSE "valid"]]}

\* the relay opens an empty event table under one of the configurations
WriterInit ==
    /\ HexIdle
    /\ event_table = <<>>
    /\ tag_table = <<>>
    /\ Migrated
    /\ QfIdle
    /\ \E c \in WriterConfigs :
          /\ user_verification = c.rows
          /\ RelayStart(c.settings)

\* ---------------------------------------------------------------- Writer

\* notice_tx.try_send(..).ok(): the notice is dropped when the channel is
\* full or its receiver is gone
NoticeFits == conn_open /\ Len(notice_rx) < NoticeCap

\* a channel that, when full, gives up the notice that waits for the new one
try_send_notice_overwrite(kind, e) ==
    IF ~conn_open THEN notice_rx
    ELSE IF Len(notice_rx) < NoticeCap THEN Append(notice_rx, [kind |-> kind, ev |-> e])
    ELSE Append(Tail(notice_rx), [kind |-> kind, ev |-> e])

try_send_notice(kind, e) ==
    IF NoticeFits THEN Append(notice_rx, [kind |-> kind, ev |-> e]) ELSE notice_rx

\* SIGINT: the shutdown signal is broadcast
Shutdown ==
    /\ ~shutdown_sent
    /\ shutdown_sent' = TRUE
    /\ UNCHANGED <<settings, writerVars, notice_rx, connVars, chanVars, workers,
                   storeVars, hexVars, qfVars>>

\* the head of the Writer's loop: shutdown.try_recv()
WriterCheckShutdown ==
    /\ writer_pc = "top"
    /\ writer_pc' = IF shutdown_sent THEN "stopped" ELSE "recv"
    /\ UNCHANGED <<settings, shutdown_sent, event_rx, bcast, optimize_counter, processed,
                   metadata_tx, limiter, submitted, notice_rx, connVars, chanVars, workers,
                   storeVars, hexVars, qfVars>>

\* the counter after one more non-ephemeral submission
OptimizeCount(n) == IF n + 1 > EVENT_COUNT_OPTIMIZE_TRIGGER THEN 0 ELSE n + 1

\* the author allow-list is configured and does not hold the event's pubkey
WriterBlocked(e) ==
    /\ settings.pubkey_whitelist # <<>>
    /\ Ev(e).pubkey \notin settings.pubkey_whitelist[1]

\* history: what the Writer did with a submission, whether its notice got
\* into the channel, and whether shutdown had been signalled by then
Processed(e, outcome, noticed) ==
    [ev |-> e, outcome |-> outcome, noticed |-> noticed, after_shutdown |-> shutdown_sent]

\* the three notices Notice::blocked is sent with
BlockedKinds == {"blocked", "blocked_invalid", "blocked_needed"}

\* try_send of a notice, then `continue`
WriterReject(kind, e) ==
    /\ notice_rx' = try_send_notice(kind, e)
    /\ processed' = Append(processed, Processed(e, kind, NoticeFits))
    /\ writer_pc' = "top"
    /\ UNCHANGED <<storeVars, bcast, optimize_counter, limiter>>

\* `continue` without a notice
WriterSkip(kind, e) ==
    /\ processed' = Append(processed, Processed(e, kind, FALSE))
    /\ writer_pc' = "top"
    /\ UNCHANGED <<storeVars, bcast, optimize_counter, limiter, notice_rx>>

\* pool.get()? returns the error from db_writer: the task ends
WriterFail(e) ==
    /\ processed' = Append(processed, Processed(e, "pool_error", FALSE))
    /\ writer_pc' = "failed"
    /\ UNCHANGED <<storeVars, bcast, optimize_counter, limiter, notice_rx>>

\* the end of a pass that wrote or published: lim.check(), and a sleep when
\* the limiter denies
WriterRateLimit ==
    IF settings.rate_limited
      THEN /\ limiter' = limiter + 1
           /\ \E denied \in BOOLEAN : writer_pc' = IF denied THEN "sleep" ELSE "top"
    ELSE /\ limiter' = limiter
         /\ writer_pc' = "top"

\* a Writer that consults the limiter at the end of every pass
WriterNoWriteConsults ==
    IF settings.rate_limited
      THEN /\ limiter' = limiter + 1
           /\ \E denied \in BOOLEAN : writer_pc' = IF denied THEN "sleep" ELSE "top"
    ELSE /\ limiter' = limiter
         /\ writer_pc' = "top"

\* the end of a pass with event_write = false
WriterNoWrite ==
    /\ limiter' = limiter
    /\ writer_pc' = "top"

\* a Writer that also inserts the ephemeral event it publishes
WriterEphemeralStored(e) ==
    /\ bcast' = Append(bcast, e)
    /\ processed' = Append(processed, Processed(e, "ephemeral", FALSE))
    /\ event_table' = write_event(event_table, tag_table, e).events
    /\ tag_table' = write_event(event_table, tag_table, e).tags
    /\ UNCHANGED <<user_verification, migVars, optimize_counter, notice_rx>>
    /\ WriterRateLimit

\* an ephemeral event: broadcast only
WriterEphemeral(e) ==
    /\ bcast' = Append(bcast, e)
    /\ processed' = Append(processed, Processed(e, "ephemeral", FALSE))
    /\ UNCHANGED <<storeVars, optimize_counter, notice_rx>>
    /\ WriterRateLimit

\* what the database does for one pass: it serves the pass, the pool hands
\* out no connection, or the statement fails
DbResults == {"ok", "no_pool", "error"}

\* a Writer that publishes whatever write_event returns, a duplicate included
WriterPersistRepublish(e) ==
    \E db \in DbResults :
        LET w == write_event(event_table, tag_table, e)
        IN  IF db = "no_pool" THEN WriterFail(e)
            ELSE /\ optimize_counter' = OptimizeCount(optimize_counter)
                 /\ UNCHANGED <<user_verification, migVars>>
                 /\ IF db = "error"
                      THEN /\ notice_rx' = try_send_notice("error", e)
                           /\ processed' = Append(processed, Processed(e, "error", NoticeFits))
                           /\ UNCHANGED <<event_table, tag_table, bcast>>
                           /\ WriterNoWrite
                    ELSE /\ event_table' = w.events
                         /\ tag_table' = w.tags
                         /\ bcast' = Append(bcast, e)
                         /\ LET o == IF w.updated = 0 THEN "duplicate" ELSE "saved"
                            IN  /\ notice_rx' = try_send_notice(o, e)
                                /\ processed' = Append(processed, Processed(e, o, NoticeFits))
                         /\ IF w.updated = 0 THEN WriterNoWrite ELSE WriterRateLimit

\* a Writer that answers `saved` whatever write_event returns
WriterPersistResave(e) ==
    \E db \in DbResults :
        LET w == write_event(event_table, tag_table, e)
        IN  IF db = "no_pool" THEN WriterFail(e)
            ELSE /\ optimize_counter' = OptimizeCount(optimize_counter)
                 /\ UNCHANGED <<user_verification, migVars>>
                 /\ IF db = "error"
                      THEN /\ notice_rx' = try_send_notice("error", e)
                           /\ processed' = Append(processed, Processed(e, "error", NoticeFits))
                           /\ UNCHANGED <<event_table, tag_table, bcast>>
                           /\ WriterNoWrite
                    ELSE /\ event_table' = w.events
                         /\ tag_table' = w.tags
                         /\ bcast' = IF w.updated = 0 THEN bcast ELSE Append(bcast, e)
                         /\ notice_rx' = try_send_notice("saved", e)
                         /\ processed' = Append(processed, Processed(e, "saved", NoticeFits))
                         /\ IF w.updated = 0 THEN WriterNoWrite ELSE WriterRateLimit

\* a Writer that publishes the event before it looks at what write_event
\* returned
WriterPersistPublishFirst(e) ==
    \E db \in DbResults :
        LET w == write_event(event_table, tag_table, e)
        IN  IF db = "no_pool" THEN WriterFail(e)
            ELSE /\ optimize_counter' = OptimizeCount(optimize_counter)
                 /\ UNCHANGED <<user_verification, migVars>>
                 /\ bcast' = Append(bcast, e)
                 /\ IF db = "error"
                      THEN /\ notice_rx' = try_send_notice("error", e)
                           /\ processed' = Append(processed, Processed(e, "error", NoticeFits))
                           /\ UNCHANGED <<event_table, tag_table>>
                           /\ WriterNoWrite
                    ELSE IF w.updated = 0
                      THEN /\ notice_rx' = try_send_notice("duplicate", e)
                           /\ processed' = Append(processed,
                                                  Processed(e, "duplicate", NoticeFits))
                           /\ event_table' = w.events
                           /\ tag_table' = w.tags
                           /\ WriterNoWrite
                    ELSE /\ event_table' = w.events
                         /\ tag_table' = w.tags
                         /\ notice_rx' = try_send_notice("saved", e)
                         /\ processed' = Append(processed, Processed(e, "saved", NoticeFits))
                         /\ WriterRateLimit

\* a non-ephemeral event: pool.get()?, write_event, then notice and broadcast,
\* and the optimize counter
WriterPersist(e) ==
    \E db \in DbResults :
        LET w == write_event(event_table, tag_table, e)
        IN  IF db = "no_pool" THEN WriterFail(e)
            ELSE /\ optimize_counter' = OptimizeCount(optimize_counter)
                 /\ UNCHANGED <<user_verification, migVars>>
                 /\ IF db = "error"
                      THEN /\ notice_rx' = try_send_notice("error", e)
                           /\ processed' = Append(processed, Processed(e, "error", NoticeFits))
                           /\ UNCHANGED <<event_table, tag_table, bcast>>
                           /\ WriterNoWrite
                    ELSE IF w.updated = 0
                      THEN /\ notice_rx' = try_send_notice("duplicate", e)
                           /\ processed' = Append(processed,
                                                  Processed(e, "duplicate", NoticeFits))
                           /\ event_table' = w.events
                           /\ tag_table' = w.tags
                           /\ UNCHANGED bcast
                           /\ WriterNoWrite
                    ELSE /\ event_table' = w.events
                         /\ tag_table' = w.tags
                         /\ bcast' = Append(bcast, e)
                         /\ notice_rx' = try_send_notice("saved", e)
                         /\ processed' = Append(processed, Processed(e, "saved", NoticeFits))
                         /\ WriterRateLimit

\* an event that passed the allow-list and the verification gate
WriterAccept(e) ==
    IF is_ephemeral(Ev(e).kind) THEN WriterEphemeral(e) ELSE WriterPersist(e)

\* a gate that lets an author without a verification row pass
WriterVerifiedUnlessInvalid(e) ==
    \E db \in DbResults :
        IF db = "no_pool" THEN WriterFail(e)
        ELSE IF db = "error" THEN WriterSkip("verify_error", e)
        ELSE IF user_verification[Ev(e).pubkey] = "invalid"
          THEN WriterReject("blocked_invalid", e)
        ELSE WriterAccept(e)

\* the verification gate: the latest verification row of the event's pubkey
WriterVerified(e) ==
    \E db \in DbResults :
        IF db = "no_pool" THEN WriterFail(e)
        ELSE IF db = "error" THEN WriterSkip("verify_error", e)
        ELSE IF user_verification[Ev(e).pubkey] = "valid" THEN WriterAccept(e)
        ELSE IF user_verification[Ev(e).pubkey] = "invalid"
          THEN WriterReject("blocked_invalid", e)
        ELSE WriterReject("blocked_needed", e)

\* a Writer that hands a metadata event to the verifier before it looks at
\* the allow-list
WriterStepForwardFirst ==
    /\ writer_pc = "recv"
    /\ event_rx # <<>>
    /\ LET e == Head(event_rx)
       IN  /\ event_rx' = Tail(event_rx)
           /\ metadata_tx' = IF settings.nip05_active /\ is_kind_metadata(Ev(e).kind)
                               THEN Append(metadata_tx, e) ELSE metadata_tx
           /\ IF WriterBlocked(e) THEN WriterReject("blocked", e)
              ELSE IF settings.nip05_enabled THEN WriterVerified(e)
              ELSE WriterAccept(e)
    /\ UNCHANGED <<settings, shutdown_sent, submitted, connVars, chanVars, workers,
                   hexVars, qfVars>>

\* one pass of the Writer's loop over the next submission
WriterStep ==
    /\ writer_pc = "recv"
    /\ event_rx # <<>>
    /\ LET e == Head(event_rx)
       IN  /\ event_rx' = Tail(event_rx)
           /\ IF WriterBlocked(e)
                THEN /\ WriterReject("blocked", e)
                     /\ UNCHANGED metadata_tx
              ELSE /\ metadata_tx' = IF settings.nip05_active /\ is_kind_metadata(Ev(e).kind)
                                       THEN Append(metadata_tx, e) ELSE metadata_tx
                   /\ IF settings.nip05_enabled THEN WriterVerified(e) ELSE WriterAccept(e)
    /\ UNCHANGED <<settings, shutdown_sent, submitted, connVars, chanVars, workers,
                   hexVars, qfVars>>

\* a Writer that discards the submission that waited while it slept
WriterWakeDropWaiting ==
    /\ writer_pc = "sleep"
    /\ writer_pc' = "top"
    /\ event_rx' = IF event_rx = <<>> THEN event_rx ELSE Tail(event_rx)
    /\ UNCHANGED <<settings, shutdown_sent, bcast, optimize_counter, processed,
                   metadata_tx, limiter, submitted, notice_rx, connVars, chanVars, workers,
                   storeVars, hexVars, qfVars>>

\* thread::sleep(wait_for) is over: `continue`
WriterWake ==
    /\ writer_pc = "sleep"
    /\ writer_pc' = "top"
    /\ UNCHANGED <<settings, shutdown_sent, event_rx, bcast, optimize_counter, processed,
                   metadata_tx, limiter, submitted, notice_rx, connVars, chanVars, workers,
                   storeVars, hexVars, qfVars>>

\* ------------------------------------------------------- query workers

\* fired_at of a worker whose one-shot has not been fired while it ran
NotFired == 0 - 1

Worker(sub) ==
    [sub_id |-> sub.id, sub |-> sub, pc |-> "spawned", rows |-> <<>>, row_count |-> 0,
     abandon |-> FALSE, outcome |-> "running",
     \* history: rows and EOSE sentinels of this worker sent on to the client,
     \* and the rows it had counted when its one-shot reached it running
     fwd |-> 0, eose_fwd |-> 0, fired_at |-> NotFired,
     \* Instant of the last row sent (of the start before the first), and
     \* history: for how long the channel had been full when the worker gave up
     last_successful_send |-> 0, full_for |-> 0]

\* the one-shot of worker w is fired (a worker that is gone ignores it)
Fire(ws, w) ==
    [ws EXCEPT ![w].abandon = TRUE,
               ![w].fired_at = IF ws[w].abandon \/ ws[w].outcome # "running" THEN @
                               ELSE ws[w].row_count]

WorkerUnchanged ==
    UNCHANGED <<settings, shutdown_sent, writerVars, notice_rx, connVars, storeVars,
                hexVars, qfVars>>

\* the worker takes a connection from the pool, prepares and runs the statement
WorkerStart(w) ==
    /\ workers[w].pc = "spawned"
    /\ \E pool_ok \in BOOLEAN :
          IF ~pool_ok
            THEN workers' = [workers EXCEPT ![w].pc = "done", ![w].outcome = "no_connection"]
          ELSE IF ~SubPrepares(workers[w].sub)
            THEN workers' = [workers EXCEPT ![w].pc = "done", ![w].outcome = "sql_error"]
          ELSE \E rows \in SubResults(workers[w].sub, event_table, tag_table) :
                  workers' = [workers EXCEPT ![w].pc = "next", ![w].rows = rows,
                                             ![w].last_successful_send = clock.now]
    /\ UNCHANGED chanVars
    /\ WorkerUnchanged

\* query_tx has room, or its receiver is gone and blocking_send returns at once
CanSend == ~conn_open \/ Len(query_rx) < QueryCap

QuerySent(w, event) ==
    IF conn_open THEN Append(query_rx, [sub_id |-> workers[w].sub_id, event |-> event, w |-> w])
    ELSE query_rx

\* a worker that never looks at its one-shot
WorkerNextNeverPolls(w) ==
    /\ workers[w].pc = "next"
    /\ workers[w].row_count < Len(workers[w].rows)
    /\ IF CanSend
         THEN /\ workers' = [workers EXCEPT ![w].row_count = @ + 1,
                                            ![w].last_successful_send = clock.now]
              /\ query_rx' = QuerySent(w, workers[w].rows[workers[w].row_count + 1])
              /\ clock' = Stamp(QuerySent(w, workers[w].rows[workers[w].row_count + 1]))
         ELSE /\ workers' = [workers EXCEPT ![w].row_count = @ + 1, ![w].pc = "send"]
              /\ UNCHANGED chanVars
    /\ WorkerUnchanged

\* event_rows.next() yields a row: the one-shot is polled every BatchSize rows,
\* the row is counted, and it is sent when the channel has room
WorkerNext(w) ==
    /\ workers[w].pc = "next"
    /\ workers[w].row_count < Len(workers[w].rows)
    /\ IF workers[w].row_count % BatchSize = 0 /\ workers[w].abandon
         THEN /\ workers' = [workers EXCEPT ![w].pc = "done", ![w].outcome = "aborted"]
              /\ UNCHANGED chanVars
         ELSE IF CanSend
           THEN /\ workers' = [workers EXCEPT ![w].row_count = @ + 1,
                                              ![w].last_successful_send = clock.now]
                /\ query_rx' = QuerySent(w, workers[w].rows[workers[w].row_count + 1])
                /\ clock' = Stamp(QuerySent(w, workers[w].rows[workers[w].row_count + 1]))
           ELSE /\ workers' = [workers EXCEPT ![w].row_count = @ + 1, ![w].pc = "send"]
                /\ UNCHANGED chanVars
    /\ WorkerUnchanged

\* the worker waited for room in the channel and got it: blocking_send of the row
WorkerSend(w) ==
    /\ workers[w].pc = "send"
    /\ CanSend
    /\ query_rx' = QuerySent(w, workers[w].rows[workers[w].row_count])
    /\ clock' = Stamp(QuerySent(w, workers[w].rows[workers[w].row_count]))
    /\ workers' = [workers EXCEPT ![w].pc = "next", ![w].last_successful_send = clock.now]
    /\ WorkerUnchanged

\* the worker finds the channel full and its last send (its start, before
\* the first) more than the cutoff ago: the query is aborted
WorkerSlowAbort(w) ==
    /\ workers[w].pc = "send"
    /\ ~CanSend
    /\ clock.timed => workers[w].last_successful_send + AbortCutoff < clock.now
    /\ workers' = [workers EXCEPT ![w].pc = "done", ![w].outcome = "slow_client",
                                  ![w].full_for = clock.now - clock.full_since]
    /\ UNCHANGED chanVars
    /\ WorkerUnchanged

EOSE == 0

\* a worker that sends the EOSE sentinel without waiting for the last row
WorkerEoseEarly(w) ==
    /\ workers[w].pc = "next"
    /\ CanSend
    /\ query_rx' = QuerySent(w, EOSE)
    /\ clock' = Stamp(QuerySent(w, EOSE))
    /\ workers' = [workers EXCEPT ![w].pc = "done", ![w].outcome = "completed"]
    /\ WorkerUnchanged

\* natural completion: the EOSE sentinel goes through the same channel
WorkerEose(w) ==
    /\ workers[w].pc = "next"
    /\ workers[w].row_count = Len(workers[w].rows)
    /\ CanSend
    /\ query_rx' = QuerySent(w, EOSE)
    /\ clock' = Stamp(QuerySent(w, EOSE))
    /\ workers' = [workers EXCEPT ![w].pc = "done", ![w].outcome = "completed"]
    /\ WorkerUnchanged

\* ------------------------------------------------- connection handler

\* an entry of ws_log: a frame consumed (out = "none"), or a ping tick that
\* sent a PING or left the loop, with the time since the last frame
LogEntry(kind, out) ==
    [k |-> kind, at |-> clock.now, idle |-> clock.now - last_message_time, out |-> out]

\* the history is kept in timed runs
Logged(kind, out) == IF clock.timed THEN Append(ws_log, LogEntry(kind, out)) ELSE ws_log

\* ws_next = ws_stream.next(): the arm starts with
\* last_message_time = Instant::now()
FrameReceived(kind) ==
    /\ last_message_time' = clock.now
    /\ ws_log' = Logged(kind, "none")
    /\ UNCHANGED ping_interval

\* Some(notice_msg) = notice_rx.recv()
RecvNotice ==
    /\ conn_open
    /\ notice_rx # <<>>
    /\ notices_out' = Append(notices_out, Head(notice_rx))
    /\ notice_rx' = Tail(notice_rx)
    /\ UNCHANGED <<settings, shutdown_sent, writerVars, conn_open, subscriptions,
                   running_queries, bcast_pos, sub_log, closes, pingVars, chanVars, workers,
                   storeVars, hexVars, qfVars>>

\* Some(query_result) = query_rx.recv()
RecvQueryResult ==
    /\ conn_open
    /\ query_rx # <<>>
    /\ LET r == Head(query_rx)
           l == sub_log[r.sub_id]
       IN  IF r.event = EOSE
             THEN /\ workers' = [workers EXCEPT ![r.w].eose_fwd = @ + 1]
                  /\ sub_log' = [sub_log EXCEPT ![r.sub_id].eose_sent = TRUE]
             ELSE /\ workers' = [workers EXCEPT ![r.w].fwd = @ + 1]
                  /\ sub_log' = [sub_log EXCEPT ![r.sub_id].hist_after_close =
                                                    IF l.closed THEN @ + 1 ELSE @]
    /\ query_rx' = Tail(query_rx)
    /\ clock' = Stamp(Tail(query_rx))
    /\ UNCHANGED <<settings, shutdown_sent, writerVars, notice_rx, conn_open, subscriptions,
                   running_queries, bcast_pos, notices_out, closes, pingVars, storeVars,
                   hexVars, qfVars>>

\* conn.get_matching_subscriptions
MatchingSubs(e) ==
    {s \in SubIds : subscriptions[s] # <<>>
                      /\ \E i \in 1..Len(subscriptions[s][1].filters) :
                            interested_in_event(subscriptions[s][1].filters[i], e)}

\* the handler's receiver has fallen more than the bus holds behind
Lagged == Len(bcast) - bcast_pos > BcastCap

\* history: the event at bus position n was sent under the matching sub_ids
Forwarded(n) ==
    [s \in SubIds |->
        IF s \in MatchingSubs(bcast[n])
          THEN [sub_log[s] EXCEPT
                  !.live_after_close = IF sub_log[s].closed THEN @ + 1 ELSE @,
                  !.live_before_eose = @ \/ ~sub_log[s].eose_sent,
                  !.live = Append(@, n)]
        ELSE sub_log[s]]

\* a handler that on a lag signal forwards the newest event and then resumes
\* from the oldest one the bus still holds
RecvBroadcastNewestFirst ==
    /\ conn_open
    /\ bcast_pos < Len(bcast)
    /\ IF Lagged
         THEN /\ bcast_pos' = Len(bcast) - BcastCap
              /\ sub_log' = Forwarded(Len(bcast))
       ELSE /\ bcast_pos' = bcast_pos + 1
            /\ sub_log' = Forwarded(bcast_pos + 1)
    /\ UNCHANGED <<settings, shutdown_sent, writerVars, notice_rx, conn_open, subscriptions,
                   running_queries, notices_out, closes, pingVars, chanVars, workers,
                   storeVars, hexVars, qfVars>>

\* Ok(global_event) = bcast_rx.recv(): the next event of the bus is forwarded
\* under every matching subscription; a receiver that lagged gets
\* Err(Lagged), which the arm's pattern ignores, and resumes from the oldest
\* event the bus still holds
RecvBroadcast ==
    /\ conn_open
    /\ bcast_pos < Len(bcast)
    /\ IF Lagged
         THEN /\ bcast_pos' = Len(bcast) - BcastCap
              /\ UNCHANGED sub_log
       ELSE /\ bcast_pos' = bcast_pos + 1
            /\ sub_log' = Forwarded(bcast_pos + 1)
    /\ UNCHANGED <<settings, shutdown_sent, writerVars, notice_rx, conn_open, subscriptions,
                   running_queries, notices_out, closes, pingVars, chanVars, workers,
                   storeVars, hexVars, qfVars>>

\* an EVENT frame with a valid event: handed to the Writer
WsEvent(e, max) ==
    /\ conn_open
    /\ Len(submitted) < max
    /\ submitted' = Append(submitted, e)
    /\ event_rx' = IF writer_pc \in {"stopped", "failed"} THEN event_rx
                   ELSE Append(event_rx, e)
    /\ FrameReceived("event")
    /\ UNCHANGED <<settings, shutdown_sent, bcast, optimize_counter, writer_pc, processed,
                   metadata_tx, limiter, notice_rx, conn_open, subscriptions, running_queries,
                   bcast_pos, notices_out, sub_log, closes, chanVars, workers, storeVars,
                   hexVars, qfVars>>

\* conn.subscribe
subscribe(subs, sub) ==
    IF sub.id \notin SubIds THEN [ok |-> FALSE, subscriptions |-> subs]
    ELSE [ok |-> TRUE, subscriptions |-> [subs EXCEPT ![sub.id] = <<sub>>]]

\* history: the REQ frames consumed, accepted or refused
ReqCount ==
    Len(workers)
      + Cardinality({i \in 1..Len(notices_out) : notices_out[i].kind = "subscription error"})

\* a handler that leaves the replaced query's one-shot alone
WsReqKeepPrevious(sub) ==
    /\ conn_open
    /\ ReqCount < MaxReq
    /\ LET r == subscribe(subscriptions, sub)
       IN  IF r.ok
             THEN /\ subscriptions' = r.subscriptions
                  /\ running_queries' = [running_queries EXCEPT ![sub.id] = <<Len(workers) + 1>>]
                  /\ workers' = Append(workers, Worker(sub))
                  /\ sub_log' = [sub_log EXCEPT ![sub.id].closed = FALSE,
                                                ![sub.id].live_after_close = 0,
                                                ![sub.id].hist_after_close = 0]
                  /\ UNCHANGED notices_out
             ELSE /\ notices_out' = Append(notices_out, [kind |-> "subscription error", ev |-> 0])
                  /\ UNCHANGED <<subscriptions, running_queries, workers, sub_log>>
    /\ FrameReceived("req")
    /\ UNCHANGED <<settings, shutdown_sent, writerVars, notice_rx, conn_open, bcast_pos,
                   closes, chanVars, storeVars, hexVars, qfVars>>

\* a handler that fires the replaced query's one-shot but leaves it in the
\* map, dropping the sender made for the new query
WsReqKeepOldEntry(sub) ==
    /\ conn_open
    /\ ReqCount < MaxReq
    /\ LET r == subscribe(subscriptions, sub)
       IN  IF r.ok
             THEN /\ subscriptions' = r.subscriptions
                  /\ running_queries' = IF running_queries[sub.id] # <<>> THEN running_queries
                                        ELSE [running_queries EXCEPT
                                                ![sub.id] = <<Len(workers) + 1>>]
                  /\ workers' = Append(IF running_queries[sub.id] # <<>>
                                         THEN Fire(workers, running_queries[sub.id][1])
                                         ELSE workers,
                                       Worker(sub))
                  /\ sub_log' = [sub_log EXCEPT ![sub.id].closed = FALSE,
                                                ![sub.id].live_after_close = 0,
                                                ![sub.id].hist_after_close = 0]
                  /\ UNCHANGED notices_out
             ELSE /\ notices_out' = Append(notices_out, [kind |-> "subscription error", ev |-> 0])
                  /\ UNCHANGED <<subscriptions, running_queries, workers, sub_log>>
    /\ FrameReceived("req")
    /\ UNCHANGED <<settings, shutdown_sent, writerVars, notice_rx, conn_open, bcast_pos,
                   closes, chanVars, storeVars, hexVars, qfVars>>

\* a handler that dispatches the query before looking at the result of
\* conn.subscribe: a refused REQ still gets a worker
WsReqSpawnAnyway(sub) ==
    /\ conn_open
    /\ ReqCount < MaxReq
    /\ LET r == subscribe(subscriptions, sub)
       IN  IF r.ok
             THEN /\ subscriptions' = r.subscriptions
                  /\ running_queries' = [running_queries EXCEPT ![sub.id] = <<Len(workers) + 1>>]
                  /\ workers' = Append(IF running_queries[sub.id] # <<>>
                                         THEN Fire(workers, running_queries[sub.id][1])
                                         ELSE workers,
                                       Worker(sub))
                  /\ sub_log' = [sub_log EXCEPT ![sub.id].closed = FALSE,
                                                ![sub.id].live_after_close = 0,
                                                ![sub.id].hist_after_close = 0]
                  /\ UNCHANGED notices_out
             ELSE /\ notices_out' = Append(notices_out, [kind |-> "subscription error", ev |-> 0])
                  /\ workers' = Append(workers, Worker(sub))
                  /\ UNCHANGED <<subscriptions, running_queries, sub_log>>
    /\ FrameReceived("req")
    /\ UNCHANGED <<settings, shutdown_sent, writerVars, notice_rx, conn_open, bcast_pos,
                   closes, chanVars, storeVars, hexVars, qfVars>>

\* a REQ frame
WsReq(sub) ==
    /\ conn_open
    /\ ReqCount < MaxReq
    /\ LET r == subscribe(subscriptions, sub)
       IN  IF r.ok
             THEN /\ subscriptions' = r.subscriptions
                  /\ running_queries' = [running_queries EXCEPT ![sub.id] = <<Len(workers) + 1>>]
                  /\ workers' = Append(IF running_queries[sub.id] # <<>>
                                         THEN Fire(workers, running_queries[sub.id][1])
                                         ELSE workers,
                                       Worker(sub))
                  /\ sub_log' = [sub_log EXCEPT ![sub.id].closed = FALSE,
                                                ![sub.id].live_after_close = 0,
                                                ![sub.id].hist_after_close = 0]
                  /\ UNCHANGED notices_out
             ELSE /\ notices_out' = Append(notices_out, [kind |-> "subscription error", ev |-> 0])
                  /\ UNCHANGED <<subscriptions, running_queries, workers, sub_log>>
    /\ FrameReceived("req")
    /\ UNCHANGED <<settings, shutdown_sent, writerVars, notice_rx, conn_open, bcast_pos,
                   closes, chanVars, storeVars, hexVars, qfVars>>

\* conn.unsubscribe
unsubscribe(subs, id) == [subs EXCEPT ![id] = <<>>]

\* a handler that stops the query on CLOSE but keeps the subscription
WsCloseKeepSubscription(id) ==
    /\ conn_open
    /\ closes < MaxClose
    /\ closes' = closes + 1
    /\ running_queries' = [running_queries EXCEPT ![id] = <<>>]
    /\ workers' = IF running_queries[id] # <<>> THEN Fire(workers, running_queries[id][1])
                  ELSE workers
    /\ sub_log' = [sub_log EXCEPT ![id].closed = TRUE]
    /\ FrameReceived("close")
    /\ UNCHANGED <<settings, shutdown_sent, writerVars, notice_rx, conn_open, bcast_pos,
                   notices_out, subscriptions, chanVars, storeVars, hexVars, qfVars>>

\* a handler that fires the one-shot on CLOSE without taking it out of the map
WsCloseKeepEntry(id) ==
    /\ conn_open
    /\ closes < MaxClose
    /\ closes' = closes + 1
    /\ running_queries' = running_queries
    /\ workers' = IF running_queries[id] # <<>> THEN Fire(workers, running_queries[id][1])
                  ELSE workers
    /\ subscriptions' = unsubscribe(subscriptions, id)
    /\ sub_log' = [sub_log EXCEPT ![id].closed = TRUE]
    /\ FrameReceived("close")
    /\ UNCHANGED <<settings, shutdown_sent, writerVars, notice_rx, conn_open, bcast_pos,
                   notices_out, chanVars, storeVars, hexVars, qfVars>>

\* a CLOSE frame
WsClose(id) ==
    /\ conn_open
    /\ closes < MaxClose
    /\ closes' = closes + 1
    /\ running_queries' = [running_queries EXCEPT ![id] = <<>>]
    /\ workers' = IF running_queries[id] # <<>> THEN Fire(workers, running_queries[id][1])
                  ELSE workers
    /\ subscriptions' = unsubscribe(subscriptions, id)
    /\ sub_log' = [sub_log EXCEPT ![id].closed = TRUE]
    /\ FrameReceived("close")
    /\ UNCHANGED <<settings, shutdown_sent, writerVars, notice_rx, conn_open, bcast_pos,
                   notices_out, chanVars, storeVars, hexVars, qfVars>>

RECURSIVE FireAll(_, _)
FireAll(ws, ids) ==
    IF ids = {} THEN ws
    ELSE LET id == CHOOSE x \in ids : TRUE
         IN  FireAll(IF running_queries[id] # <<>> THEN Fire(ws, running_queries[id][1]) ELSE ws,
                     ids \ {id})

\* a handler that leaves its loop without firing the pending one-shots
CleanupKeepQueries ==
    /\ conn_open' = FALSE
    /\ workers' = workers
    /\ query_rx' = <<>>
    /\ clock' = Stamp(<<>>)
    /\ notice_rx' = <<>>
    /\ UNCHANGED <<settings, shutdown_sent, writerVars, subscriptions, running_queries,
                   bcast_pos, notices_out, sub_log, closes, storeVars, hexVars, qfVars>>

\* the loop is left and every pending one-shot fired; the channels' receivers
\* are dropped with the handler
Cleanup ==
    /\ conn_open' = FALSE
    /\ workers' = FireAll(workers, SubIds)
    /\ query_rx' = <<>>
    /\ clock' = Stamp(<<>>)
    /\ notice_rx' = <<>>
    /\ UNCHANGED <<settings, shutdown_sent, writerVars, subscriptions, running_queries,
                   bcast_pos, notices_out, sub_log, closes, storeVars, hexVars, qfVars>>

\* _ = shutdown.recv()
RecvShutdown ==
    /\ conn_open
    /\ shutdown_sent
    /\ Cleanup
    /\ UNCHANGED pingVars

\* the client closes the websocket
WsClosed ==
    /\ conn_open
    /\ Cleanup
    /\ FrameReceived("closed")

\* the idle period at a ping tick is longer than max_quiet_time
QuietTooLong == clock.now - last_message_time > MaxQuietTime

\* a ping tick is due; a run that does not follow the time has one at any
\* moment, after any idle period
TickDue == clock.timed => clock.now >= ping_interval

\* a tick that leaves the loop although a frame arrived within max_quiet_time
PingTimeoutAlways ==
    /\ conn_open
    /\ TickDue
    /\ Cleanup
    /\ ws_log' = Logged("tick", "close")
    /\ ping_interval' = IF clock.timed THEN ping_interval + PingDur ELSE ping_interval
    /\ UNCHANGED last_message_time

\* _ = ping_interval.tick(): the client has been quiet for longer than
\* max_quiet_time, break
PingTimeout ==
    /\ conn_open
    /\ TickDue
    /\ clock.timed => QuietTooLong
    /\ Cleanup
    /\ ws_log' = Logged("tick", "close")
    /\ ping_interval' = IF clock.timed THEN ping_interval + PingDur ELSE ping_interval
    /\ UNCHANGED last_message_time

\* _ = ping_interval.tick(): the client was heard from within
\* max_quiet_time, a PING is sent
PingTick ==
    /\ conn_open
    /\ clock.timed
    /\ clock.now >= ping_interval
    /\ ~QuietTooLong
    /\ ws_log' = Logged("tick", "ping")
    /\ ping_interval' = ping_interval + PingDur
    /\ UNCHANGED <<settings, shutdown_sent, writerVars, notice_rx, conn_open, subscriptions,
                   running_queries, bcast_pos, notices_out, sub_log, closes,
                   last_message_time, chanVars, workers, storeVars, hexVars, qfVars>>

\* the websocket yields an I/O error or an error the handler does not know
WsError ==
    /\ conn_open
    /\ Cleanup
    /\ FrameReceived("error")

\* the frames a run may contain that the handler answers on the spot
MaxFrames == 2

\* Frames the handler answers without acting on them: a binary frame, a
\* frame over the websocket's size limit, an EVENT message over
\* max_event_bytes, a text that is no message, an EVENT whose event does not
\* validate, a CLOSE that does not validate, and the PING and PONG frames.
QuietFrames == {"ping", "pong"}

NoticeFrames ==
    {"binary", "too_long", "event_too_big", "unparseable", "invalid_event", "invalid_close"}

\* the text of the NOTICE sent for a frame
FrameNotice(kind) ==
    CASE kind = "binary"        -> "binary messages are not accepted"
      [] kind = "too_long"      -> "message too large"
      [] kind = "event_too_big" -> "event exceeded max size"
      [] kind = "unparseable"   -> "could not parse command"
      [] kind = "invalid_event" -> "event was invalid"
      [] kind = "invalid_close" -> "could not parse command"

HandlerNotices == {FrameNotice(kind) : kind \in NoticeFrames}

\* history: the frames of these kinds consumed so far
FrameCount ==
    IF clock.timed
      THEN Cardinality({i \in 1..Len(ws_log) : ws_log[i].k \in NoticeFrames \cup QuietFrames})
      ELSE Cardinality({i \in 1..Len(notices_out) : notices_out[i].kind \in HandlerNotices})

FrameUnchanged ==
    UNCHANGED <<settings, shutdown_sent, writerVars, notice_rx, conn_open, subscriptions,
                running_queries, bcast_pos, sub_log, closes, chanVars, workers, storeVars,
                hexVars, qfVars>>

\* a handler that takes a binary frame for a fatal error
WsFrameBinaryFatal(kind) ==
    /\ conn_open
    /\ FrameCount < MaxFrames
    /\ FrameReceived(kind)
    /\ IF kind = "binary" THEN Cleanup
       ELSE /\ notices_out' = IF kind \in QuietFrames THEN notices_out
                              ELSE Append(notices_out, [kind |-> FrameNotice(kind), ev |-> 0])
            /\ FrameUnchanged

\* such a frame: a NOTICE is sent (none for PING and PONG) and the loop goes on
WsFrame(kind) ==
    /\ conn_open
    /\ FrameCount < MaxFrames
    /\ FrameReceived(kind)
    /\ notices_out' = IF kind \in QuietFrames THEN notices_out
                      ELSE Append(notices_out, [kind |-> FrameNotice(kind), ev |-> 0])
    /\ FrameUnchanged

Next ==
    \/ WriterCheckShutdown
    \/ WriterStep
    \/ \E w \in 1..Len(workers) : WorkerStart(w)
    \/ \E w \in 1..Len(workers) : WorkerNext(w)
    \/ \E w \in 1..Len(workers) : WorkerSend(w)
    \/ \E w \in 1..Len(workers) : WorkerSlowAbort(w)
    \/ \E w \in 1..Len(workers) : WorkerEose(w)
    \/ RecvNotice
    \/ RecvQueryResult
    \/ RecvBroadcast
    \/ \E e \in SubmitPool : WsEvent(e, MaxLive)
    \/ \E id \in SubIds \cup {LongSubId}, f \in ReqFilters : WsReq([id |-> id, filters |-> <<f>>])
    \/ \E id \in SubIds : WsClose(id)
    \/ WsClosed

Spec == Init /\ [][Next]_vars


(***************************************************************************)
(* Properties of the relay.                                                *)
(***************************************************************************)
WorkerIds == 1..Len(workers)

\* the EOSE sentinels of worker w: sent on to the client, or still queued
EoseCount(w) ==
    workers[w].eose_fwd
      + Cardinality({i \in 1..Len(query_rx) : query_rx[i].w = w /\ query_rx[i].event = EOSE})

CountOutcome(e, o) ==
    Cardinality({i \in 1..Len(processed) : processed[i].ev = e /\ processed[i].outcome = o})

BcastCount(e) == Cardinality({i \in 1..Len(bcast) : bcast[i] = e})

\* the notices of one kind about event e that reached the handler's channel
NoticeCount(kind, e) ==
    Cardinality({i \in 1..Len(notices_out) : notices_out[i] = [kind |-> kind, ev |-> e]})
      + Cardinality({i \in 1..Len(notice_rx) : notice_rx[i] = [kind |-> kind, ev |-> e]})

C2_NoLiveBeforeEose == \A s \in SubIds : ~sub_log[s].live_before_eose

\* C5 as stated: after CLOSE S nothing more than one EVENT bearing S is sent
\* until a new REQ reuses S.
C5_NothingAfterClose ==
    \A s \in SubIds :
        sub_log[s].closed
            => sub_log[s].hist_after_close + sub_log[s].live_after_close <= 1

\* C5 amended: after CLOSE S, and until a new REQ reuses S, no live EVENT
\* bearing S is sent, S is neither subscribed nor registered as a running
\* query, and every worker of S still running has its one-shot fired, so the
\* historical EVENTs that follow the CLOSE end at the worker's next poll.
C5_ClosedStopsLive ==
    \A s \in SubIds :
        sub_log[s].closed =>
            /\ sub_log[s].live_after_close = 0
            /\ subscriptions[s] = <<>>
            /\ running_queries[s] = <<>>
            /\ \A w \in WorkerIds :
                  workers[w].sub_id = s => (workers[w].abandon \/ workers[w].pc = "done")

C5_Witness ==
    \E s \in SubIds :
        /\ sub_log[s].closed
        /\ sub_log[s].hist_after_close = 2
        /\ \E i \in 1..Len(bcast) : i <= bcast_pos /\ interested_in_event(NoFilter, bcast[i])

InFlight(w) == workers[w].pc # "done"

\* C6 as stated: at most one query worker is in flight per sub_id.
C6_OneWorkerPerSub ==
    \A s \in SubIds :
        Cardinality({w \in WorkerIds : workers[w].sub_id = s /\ InFlight(w)}) <= 1

\* C6 amended: per sub_id at most one worker in flight has an unfired
\* one-shot, and it is the worker of the latest REQ, the one registered in
\* running_queries; a second REQ fires the one-shot of the prior worker.
C6_OneUncancelledWorkerPerSub ==
    \A w \in WorkerIds :
        (InFlight(w) /\ ~workers[w].abandon) => running_queries[workers[w].sub_id] = <<w>>

C6_Witness ==
    \E v, w \in WorkerIds :
        /\ v < w
        /\ workers[v].sub_id = workers[w].sub_id
        /\ InFlight(v) /\ workers[v].abandon
        /\ InFlight(w) /\ ~workers[w].abandon

\* C10: an ephemeral event that passes authorisation is published on the
\* bus at every submission, is never stored and so never replayed by a query
\* worker, gets no notice, and leaves the optimize counter alone: the counter
\* counts the submissions that reached write_event.
C10_EphemeralBypassesStore ==
    /\ \A r \in 1..Len(event_table) : ~is_ephemeral(event_table[r].kind)
    /\ \A w \in WorkerIds : \A i \in 1..Len(workers[w].rows) :
          ~is_ephemeral(Ev(workers[w].rows[i]).kind)
    /\ \A i \in 1..Len(processed) :
          is_ephemeral(Ev(processed[i].ev).kind)
              => (processed[i].outcome = "ephemeral" /\ ~processed[i].noticed)
    /\ \A e \in EventIds :
          is_ephemeral(Ev(e).kind) =>
              /\ BcastCount(e) = CountOutcome(e, "ephemeral")
              /\ \A k \in {"saved", "duplicate", "error"} : NoticeCount(k, e) = 0
    /\ optimize_counter =
          Cardinality({i \in 1..Len(processed) :
                          processed[i].outcome \in {"saved", "duplicate", "error"}})
             % (EVENT_COUNT_OPTIMIZE_TRIGGER + 1)

C10_Witness ==
    /\ \E e \in EventIds : is_ephemeral(Ev(e).kind) /\ BcastCount(e) = 1
    /\ optimize_counter = 0
    /\ \E w \in WorkerIds : workers[w].outcome = "completed" /\ Len(workers[w].rows) = 2

\* the Writer with one submitting connection, and the shutdown signal
WriterNext ==
    \/ Shutdown
    \/ WriterCheckShutdown
    \/ WriterStep
    \/ WriterWake
    \/ RecvNotice
    \/ RecvBroadcast
    \/ \E e \in EventIds : WsEvent(e, MaxSubmit)
    \/ RecvShutdown
    \/ WsClosed

SpecWriter == WriterInit /\ [][WriterNext]_vars

\* C3 as stated: no event id is published on the bus more than once.
C3_PublishedAtMostOnce == \A e \in EventIds : BcastCount(e) <= 1

\* C3 amended: a non-ephemeral event id is published exactly once if it is
\* stored and never otherwise, so a resubmission of a stored event is not
\* published again; an ephemeral event id is published once per submission
\* that passes authorisation.
C3_PublishedPerPersist ==
    \A e \in EventIds :
        BcastCount(e) = IF is_ephemeral(Ev(e).kind) THEN CountOutcome(e, "ephemeral")
                        ELSE IF e \in Persisted THEN 1
                        ELSE 0

C3_Witness ==
    \E e \in EventIds :
        /\ CountOutcome(e, "saved") = 1
        /\ CountOutcome(e, "duplicate") = 1
        /\ BcastCount(e) = 1
        /\ bcast_pos = 1

\* C4 as stated: every event id gets exactly one `saved` and its other
\* submissions `duplicate`.  Taken without an allow-list, without identity
\* verification and without database errors, for the ids the Writer has
\* processed.
C4_ExactlyOneSaved ==
    (settings = DefaultSettings
        /\ \A i \in 1..Len(processed) : processed[i].outcome \notin {"error", "pool_error"})
    => \A i \in 1..Len(processed) :
          /\ CountOutcome(processed[i].ev, "saved") = 1
          /\ processed[i].outcome \in {"saved", "duplicate"}

\* C4 amended: a non-ephemeral event id gets at most one `saved`, for the
\* submission that stored it; each later submission the Writer takes to
\* write_event is answered `duplicate` (`error` when the insert fails) and
\* never `saved`; `duplicate` is only ever the answer for a stored id; an
\* ephemeral id gets no `saved`; no more notices reach the connection than
\* outcomes were decided.
C4_SavedOnceThenDuplicate ==
    \A e \in EventIds :
        /\ CountOutcome(e, "saved") <= 1
        /\ CountOutcome(e, "saved") = 1 <=> e \in Persisted
        /\ \A i, j \in 1..Len(processed) :
              (i < j /\ processed[i].ev = e /\ processed[j].ev = e
                     /\ processed[i].outcome = "saved"
                     /\ processed[j].outcome \notin {"pool_error", "verify_error"})
                  => processed[j].outcome \in {"duplicate", "error"}
        /\ \A j \in 1..Len(processed) :
              (processed[j].ev = e /\ processed[j].outcome = "duplicate")
                  => \E i \in 1..(j - 1) :
                        processed[i].ev = e /\ processed[i].outcome = "saved"
        /\ \A k \in {"saved", "duplicate"} : NoticeCount(k, e) <= CountOutcome(e, k)

C4_Witness ==
    \E e \in EventIds :
        notices_out = << [kind |-> "saved", ev |-> e], [kind |-> "duplicate", ev |-> e] >>

\* the events write_event was called with and did not fail on, in order
Accepted ==
    LET a == SelectSeq(processed, LAMBDA p : p.outcome \in {"saved", "duplicate"})
    IN  [i \in 1..Len(a) |-> a[i].ev]

\* the first occurrence of each element, in order
RECURSIVE Dedup(_)
Dedup(es) ==
    IF es = <<>> THEN <<>>
    ELSE LET before == Dedup(SubSeq(es, 1, Len(es) - 1))
             x == es[Len(es)]
         IN  IF \E i \in 1..Len(before) : before[i] = x THEN before ELSE Append(before, x)

ErrorOutcomes == BlockedKinds \cup {"error", "pool_error", "verify_error"}

\* the outcomes of a pass that called notice_tx.try_send
NoticeTried(outcome) == outcome \in BlockedKinds \cup {"error", "duplicate", "saved"}

\* C11: the Writer never ends because of a single submission, and on every
\* error path of a submission it tries to send a notice to the submitter.
C11_ErrorsNoticedWriterContinues ==
    /\ writer_pc # "failed"
    /\ \A i \in 1..Len(processed) :
          processed[i].outcome \in ErrorOutcomes => NoticeTried(processed[i].outcome)

\* C12: the Writer processes no submission after the shutdown signal was
\* sent.
C12_NothingProcessedAfterShutdown ==
    \A i \in 1..Len(processed) : ~processed[i].after_shutdown

(***************************************************************************)
(* The bus: a subscribed connection and a Writer that publishes more than  *)
(* the bus holds.                                                          *)
(***************************************************************************)
BusSub == [id |-> "s1", filters |-> <<NoFilter>>]

\* the events submitted: a text note, a contact list and an ephemeral event
BusPool == {1, 3, 5}

\* the relay after REQ s1 {} on an empty database has been answered with EOSE,
\* the frame having arrived as the connection was set up
BusAt(clk) ==
    /\ HexIdle
    /\ EmptyStore
    /\ QfIdle
    /\ settings = DefaultSettings
    /\ metadata_tx = <<>>
    /\ limiter = 0
    /\ submitted = <<>>
    /\ shutdown_sent = FALSE
    /\ event_rx = <<>>
    /\ bcast = <<>>
    /\ optimize_counter = 0
    /\ writer_pc = "top"
    /\ processed = <<>>
    /\ notice_rx = <<>>
    /\ conn_open = TRUE
    /\ subscriptions = [s \in SubIds |-> IF s = BusSub.id THEN <<BusSub>> ELSE <<>>]
    /\ running_queries = [s \in SubIds |-> IF s = BusSub.id THEN <<1>> ELSE <<>>]
    /\ query_rx = <<>>
    /\ clock = clk
    /\ bcast_pos = 0
    /\ notices_out = <<>>
    /\ sub_log = [s \in SubIds |->
                    IF s = BusSub.id THEN [SubLog0 EXCEPT !.eose_sent = TRUE] ELSE SubLog0]
    /\ closes = 0
    /\ last_message_time = clk.now
    /\ ping_interval = clk.now + PingDur
    /\ ws_log = <<>>
    /\ workers = << [Worker(BusSub) EXCEPT !.pc = "done", !.outcome = "completed",
                                           !.eose_fwd = 1] >>

BusInit == BusAt(Untimed)

BusNext ==
    \/ WriterCheckShutdown
    \/ WriterStep
    \/ RecvNotice
    \/ RecvBroadcast
    \/ \E e \in BusPool : WsEvent(e, MaxBus)

SpecBus == BusInit /\ [][BusNext]_vars

\* C13: a Writer that holds a submission can always take its step, however
\* far the connection is behind on the bus, and the live events forwarded
\* under a sub_id are in the order they were published.
C13_BusNeverBlocksInOrder ==
    /\ (writer_pc = "recv" /\ event_rx # <<>>) => ENABLED WriterStep
    /\ \A s \in SubIds :
          \A i, j \in 1..Len(sub_log[s].live) :
              i < j => sub_log[s].live[i] < sub_log[s].live[j]

\* the connection got the first event, lagged over the second while the
\* Writer published on, and got the third
C13_Witness ==
    /\ Len(bcast) = MaxBus
    /\ LET live == sub_log[BusSub.id].live
       IN  \E i \in 1..(Len(live) - 1) : live[i] = 1 /\ live[i + 1] > 2

\* C14: a worker whose one-shot was fired while it ran sends at most one
\* further batch of rows and does not complete with EOSE.
C14_CancelledWorkerStops ==
    \A w \in 1..Len(workers) :
        workers[w].fired_at # NotFired =>
            /\ workers[w].row_count - workers[w].fired_at <= BatchSize
            /\ workers[w].outcome # "completed"

(***************************************************************************)
(* Backpressure in time: one connection, its query workers and a clock     *)
(* that counts the 100 ms steps of the workers' retry.                     *)
(***************************************************************************)
SlowInit ==
    /\ HexIdle
    /\ event_table = StoreOf(<<1, 2>>).events
    /\ tag_table = StoreOf(<<1, 2>>).tags
    /\ user_verification = NoVerification
    /\ Migrated
    /\ QfIdle
    /\ RelayAt(DefaultSettings, [timed |-> TRUE, now |-> 0, full_since |-> NotFull])

\* 100 ms pass
Tick ==
    /\ clock.timed
    /\ clock.now < MaxTime
    /\ clock' = [clock EXCEPT !.now = @ + 1]
    /\ UNCHANGED <<settings, shutdown_sent, writerVars, notice_rx, connVars, query_rx,
                   workers, storeVars, hexVars, qfVars>>

SlowNext ==
    \/ \E w \in 1..Len(workers) : WorkerStart(w)
    \/ \E w \in 1..Len(workers) : WorkerNext(w)
    \/ \E w \in 1..Len(workers) : WorkerSend(w)
    \/ \E w \in 1..Len(workers) : WorkerSlowAbort(w)
    \/ \E w \in 1..Len(workers) : WorkerEose(w)
    \/ RecvQueryResult
    \/ \E id \in SubIds, f \in ReqFilters : WsReq([id |-> id, filters |-> <<f>>])
    \/ Tick

SpecSlow == SlowInit /\ [][SlowNext]_vars

\* C15: a worker gives up on a slow consumer only when the result channel
\* has been full without a break for longer than the cutoff.
C15_AbortOnlyAfterFullCutoff ==
    \A w \in 1..Len(workers) :
        workers[w].outcome = "slow_client" => workers[w].full_for > AbortCutoff

(***************************************************************************)
(* The exits of the connection handler, with query workers that are        *)
(* scheduled: each runs on a thread of the blocking pool.                  *)
(***************************************************************************)
ExitNext ==
    \/ Shutdown
    \/ \E w \in 1..Len(workers) : WorkerStart(w)
    \/ \E w \in 1..Len(workers) : WorkerNext(w)
    \/ \E w \in 1..Len(workers) : WorkerSend(w)
    \/ \E w \in 1..Len(workers) : WorkerSlowAbort(w)
    \/ \E w \in 1..Len(workers) : WorkerEose(w)
    \/ RecvQueryResult
    \/ \E id \in SubIds, f \in ReqFilters : WsReq([id |-> id, filters |-> <<f>>])
    \/ RecvShutdown
    \/ PingTimeout
    \/ WsClosed
    \/ WsError

\* a step of worker w
WorkerRun(w) ==
    /\ w <= Len(workers)
    /\ WorkerStart(w) \/ WorkerNext(w) \/ WorkerSend(w) \/ WorkerSlowAbort(w) \/ WorkerEose(w)

SpecExit ==
    /\ Init
    /\ [][ExitNext]_vars
    /\ \A w \in 1..MaxReq : WF_vars(WorkerRun(w))

\* the one-shot of every query still registered has been fired
AllFired ==
    \A s \in SubIds : running_queries[s] # <<>> => workers[running_queries[s][1]].abandon

\* every query worker has returned
AllDone == \A w \in 1..Len(workers) : workers[w].pc = "done"

\* C16: once the handler has left its loop, by whichever exit, the one-shot
\* of every registered query has been fired, and every query worker
\* eventually returns.
C16_ExitFiresAllWorkersEnd ==
    /\ [](~conn_open => AllFired)
    /\ (~conn_open ~> AllDone)

\* the handler left while a registered query was running, and its worker has
\* returned on the one-shot
C16_Witness ==
    /\ ~conn_open
    /\ \E s \in SubIds :
          /\ running_queries[s] # <<>>
          /\ workers[running_queries[s][1]].fired_at # NotFired
          /\ workers[running_queries[s][1]].outcome = "aborted"

(***************************************************************************)
(* The SQL text.  A text is the sequence of the pieces it was put together *)
(* from: literals of the program and formatted integers.  A piece made of  *)
(* a hex token is what a compiler that formatted tokens in would produce.  *)
(***************************************************************************)
Txt(s) == [k |-> "txt", s |-> s, n |-> 0, h |-> <<>>]
Num(n) == [k |-> "int", s |-> "", n |-> n, h |-> <<>>]
Hex(h) == [k |-> "hex", s |-> "", n |-> 0, h |-> h]

\* ts.join(sep)
RECURSIVE Join(_, _)
Join(ts, sep) ==
    IF ts = <<>> THEN <<>>
    ELSE IF Len(ts) = 1 THEN ts[1]
    ELSE ts[1] \o <<Txt(sep)>> \o Join(Tail(ts), sep)

repeat_vars(count) == Join([i \in 1..count |-> <<Txt("?")>>], ",")

\* the text pushed for one author alternative
AuthAltText(search) ==
    CASE search.variant = "Exact"     -> <<Txt("author=? OR delegated_by=?")>>
      [] search.variant = "Range"     ->
           <<Txt("(author>? AND author<?) OR (delegated_by>? AND delegated_by<?)")>>
      [] search.variant = "LowerOnly" -> <<Txt("author>? OR delegated_by>?")>>

\* a compiler that formats the bytes of an id token into the statement
IdAltTextInline(search) ==
    CASE search.variant = "Exact"     -> <<Txt("event_hash=x'"), Hex(search.ex), Txt("'")>>
      [] search.variant = "Range"     -> <<Txt("(event_hash>? AND event_hash<?)")>>
      [] search.variant = "LowerOnly" -> <<Txt("event_hash>?")>>

\* the text pushed for one id alternative
IdAltText(search) ==
    CASE search.variant = "Exact"     -> <<Txt("event_hash=?")>>
      [] search.variant = "Range"     -> <<Txt("(event_hash>? AND event_hash<?)")>>
      [] search.variant = "LowerOnly" -> <<Txt("event_hash>?")>>

\* the clause of one tag: the name and the values are `?` placeholders
TagText(key, val) ==
    LET IsBlob(v) == IsHexTagValue(v)
        IsStr(v)  == ~IsHexTagValue(v)
    IN  <<Txt("e.id IN (SELECT e.id FROM event e LEFT JOIN tag t on e.id=t.event_id WHERE hidden!=TRUE and (name=? AND ("),
          Txt("value IN (")>> \o repeat_vars(Len(Keep(val, IsStr)))
        \o <<Txt(")"), Txt(" OR "), Txt("value_hex IN (")>> \o repeat_vars(Len(Keep(val, IsBlob)))
        \o <<Txt(")"), Txt(")))")>>

\* the String that query_from_filter returns
query_text(f) ==
    IF f.force_no_match
      THEN <<Txt("SELECT e.content, e.created_at FROM event e WHERE 1=0")>>
    ELSE LET auths == IF f.authors = <<>> THEN <<>> ELSE HexSearches(f.authors[1])
             idss  == IF f.ids = <<>> THEN <<>> ELSE HexSearches(f.ids[1])
             authors_clause ==
                 IF f.authors = <<>> THEN <<>>
                 ELSE IF f.authors[1] # <<>>
                   THEN << <<Txt("(")>>
                           \o Join([i \in 1..Len(auths) |-> AuthAltText(auths[i])], " OR ")
                           \o <<Txt(")")>> >>
                 ELSE << <<Txt("false")>> >>
             kind_clause ==
                 IF f.kinds = <<>> THEN <<>>
                 ELSE << <<Txt("kind IN (")>>
                         \o Join([i \in 1..Len(f.kinds[1]) |-> <<Num(f.kinds[1][i])>>], ", ")
                         \o <<Txt(")")>> >>
             id_clause ==
                 IF f.ids = <<>> THEN <<>>
                 ELSE IF f.ids[1] # <<>>
                   THEN << <<Txt("(")>>
                           \o Join([i \in 1..Len(idss) |-> IdAltText(idss[i])], " OR ")
                           \o <<Txt(")")>> >>
                 ELSE << <<Txt("false")>> >>
             tag_clauses ==
                 IF f.tags = <<>> THEN <<>>
                 ELSE [i \in 1..Len(f.tags[1]) |-> TagText(f.tags[1][i][1], f.tags[1][i][2])]
             created_clause ==
                 IF f.since = <<>> THEN <<>>
                 ELSE << <<Txt("created_at > "), Num(f.since[1])>> >>
             until_clause ==
                 IF f.until = <<>> THEN <<>>
                 ELSE << <<Txt("created_at < "), Num(f.until[1])>> >>
             filter_components ==
                 authors_clause \o kind_clause \o id_clause \o tag_clauses
                     \o created_clause \o until_clause
         IN  <<Txt("SELECT e.content, e.created_at FROM event e"), Txt(" WHERE hidden!=TRUE")>>
             \o (IF filter_components # <<>>
                   THEN <<Txt(" AND ")>> \o Join(filter_components, " AND ")
                   ELSE <<>>)
             \o (IF f.limit # <<>>
                   THEN <<Txt(" ORDER BY e.created_at DESC LIMIT "), Num(f.limit[1])>>
                   ELSE <<Txt(" ORDER BY e.created_at ASC")>>)

\* the String that query_from_sub returns
sub_text(sub) ==
    Join([i \in 1..Len(sub.filters) |->
             <<Txt("SELECT distinct content, created_at FROM (")>>
                 \o query_text(sub.filters[i]) \o <<Txt(")")>>],
         " UNION ")

\* the filters compiled: tokens of every HexSearch variant and unparsable
\* ones, tag values of both classifications, with two different texts each
SqlIdsOpts ==
    {<<>>, << <<>> >>, << <<ShortId>> >>, << << <<14>> >> >>, << <<FullId>> >>,
     << <<MkKey(1, 0)>> >>, << <<ShortId, FullId>> >>, << << <<14, 1>>, MkKey(1, 0) >> >>,
     << << <<NonHexChar>> >> >>, << << <<15>>, <<NonHexChar, 1>> >> >>}
SqlAuthorsOpts ==
    {<<>>, << <<ShortAuthor>> >>, << << <<1, 0>> >> >>, << <<AllFsAuthor>> >>,
     << << <<15, 15>> >> >>, << <<FullId, ShortId>> >>, << <<MkKey(1, 15), <<14>> >> >>}
SqlTagsOpts ==
    {<<>>,
     << << <<"e", << <<1, 0>> >> >> >> >>,
     << << <<"p", << <<14, 1>> >> >> >> >>,
     << << <<"e", << <<1>>, <<0, 0>> >> >>, <<"p", << <<NonHexChar>> >> >> >> >>,
     << << <<"t", << <<NonHexChar, 1>>, <<1, 0>> >> >>, <<"e", << <<1>> >> >> >> >>}

SqlFilters ==
    [ids : SqlIdsOpts, authors : SqlAuthorsOpts, kinds : KindsOpts, tags : SqlTagsOpts,
     since : SinceOpts, until : UntilOpts, limit : LimitOpts, force_no_match : BOOLEAN]

\* the subscription {f} is compiled
SqlCompile(f) ==
    /\ qfPhase = "idle"
    /\ qfFilter' = f
    /\ qfPhase' = "compiled"
    /\ qfResult' = <<>>
    /\ UNCHANGED <<storeVars, hexVars, relayVars>>

SqlNext ==
    \/ \E f \in SqlFilters : SqlCompile(f)
    \/ QfReset

SpecSql == QfInit /\ [][SqlNext]_vars

\* a token with the text taken out: one fixed token per HexSearch variant
CanonToken(t) ==
    CASE hex_range(t).variant = "Exact"     -> [i \in 1..KeyNibbles |-> 0]
      [] hex_range(t).variant = "Range"     -> <<0>>
      [] hex_range(t).variant = "LowerOnly" -> <<15>>
      [] OTHER                              -> <<NonHexChar>>

\* a tag value with the text taken out: one fixed value per classification
CanonValue(v) == IF IsHexTagValue(v) THEN <<0, 0>> ELSE <<NonHexChar>>

\* the filter with every user-supplied text replaced by the fixed text of the
\* same classification; the integers stay
Canon(f) ==
    [f EXCEPT
       !.ids = IF @ = <<>> THEN @ ELSE << [i \in 1..Len(@[1]) |-> CanonToken(@[1][i])] >>,
       !.authors = IF @ = <<>> THEN @ ELSE << [i \in 1..Len(@[1]) |-> CanonToken(@[1][i])] >>,
       !.tags = IF @ = <<>> THEN @
                ELSE << [i \in 1..Len(@[1]) |->
                           <<"x", [j \in 1..Len(@[1][i][2]) |-> CanonValue(@[1][i][2][j])]>>] >>]

\* the integers of a filter, in the order they are formatted
FilterInts(f) ==
    (IF f.force_no_match \/ f.kinds = <<>> THEN <<>> ELSE f.kinds[1])
        \o (IF f.force_no_match THEN <<>> ELSE f.since)
        \o (IF f.force_no_match THEN <<>> ELSE f.until)
        \o (IF f.force_no_match THEN <<>> ELSE f.limit)

\* C17: the SQL text of a subscription is the text of the subscription with
\* all its tag names, tag values and hex tokens replaced by fixed ones of the
\* same classification, so two subscriptions that differ only in those have
\* the same text; and the only pieces formatted into the text are the
\* filter's integers.
C17_TextIndependentOfUserText ==
    qfPhase = "compiled" =>
        LET text == sub_text([filters |-> <<qfFilter>>])
            IsInt(piece) == piece.k = "int"
            ints == Keep(text, IsInt)
        IN  /\ text = sub_text([filters |-> <<Canon(qfFilter)>>])
            /\ \A i \in 1..Len(text) : text[i].k \in {"txt", "int"}
            /\ [i \in 1..Len(ints) |-> ints[i].n] = FilterInts(qfFilter)

\* a compiled filter with ids, authors and tags, none of them the fixed text
C17_Witness ==
    /\ qfPhase = "compiled"
    /\ ~qfFilter.force_no_match
    /\ qfFilter.ids = << << <<14, 1>>, MkKey(1, 0) >> >>
    /\ qfFilter.authors = << <<MkKey(1, 15), <<14>> >> >>
    /\ Len(qfFilter.tags) = 1 /\ Len(qfFilter.tags[1]) = 2
    /\ qfFilter.kinds # <<>> /\ qfFilter.limit # <<>>
    /\ qfFilter # Canon(qfFilter)

\* how many submissions the Writer ended with one of the outcomes
CountOutcomes(outcomes) ==
    Cardinality({i \in 1..Len(processed) : processed[i].outcome \in outcomes})

\* the notices about event e, in the channel or sent on to the client
NoticesAbout(e) ==
    {notice_rx[i].kind : i \in {j \in 1..Len(notice_rx) : notice_rx[j].ev = e}}
        \cup {notices_out[i].kind : i \in {j \in 1..Len(notices_out) : notices_out[j].ev = e}}

\* C18: with an allow-list, a submission whose pubkey is not listed ends with
\* the `blocked` notice; its event is not stored, not published, not handed
\* to the verifier, and it moves neither the rate limiter nor the optimize
\* counter, which count the other submissions only.
C18_BlockedLeavesNoTrace ==
    settings.pubkey_whitelist # <<>> =>
        /\ \A i \in 1..Len(processed) :
              WriterBlocked(processed[i].ev) => processed[i].outcome = "blocked"
        /\ \A e \in EventIds :
              WriterBlocked(e) =>
                  /\ e \notin Persisted
                  /\ BcastCount(e) = 0
                  /\ \A i \in 1..Len(metadata_tx) : metadata_tx[i] # e
                  /\ NoticesAbout(e) \subseteq {"blocked"}
        /\ limiter = IF settings.rate_limited THEN CountOutcomes({"saved", "ephemeral"}) ELSE 0
        /\ optimize_counter = CountOutcomes({"saved", "duplicate", "error"})

\* a metadata event of a pubkey that is not listed was blocked and its
\* submitter told so, and a listed author's event was saved
C18_Witness ==
    /\ settings.pubkey_whitelist # <<>>
    /\ settings.nip05_active
    /\ \E i, j \in 1..Len(processed) :
          /\ WriterBlocked(processed[i].ev)
          /\ is_kind_metadata(Ev(processed[i].ev).kind)
          /\ processed[i].noticed
          /\ processed[j].outcome = "saved"
    /\ limiter = 1
    /\ optimize_counter = 1

\* the outcomes of a pass in which the lookup of the verification row itself
\* failed
LookupFailed == {"pool_error", "verify_error"}

LimiterInit == WriterInit /\ settings.rate_limited

SpecLimiter ==
    /\ LimiterInit
    /\ [][WriterNext]_vars
    /\ WF_vars(WriterCheckShutdown)
    /\ WF_vars(WriterStep)
    /\ WF_vars(WriterWake)

\* the db_writer task has returned
WriterGone == writer_pc \in {"stopped", "failed"}

\* the events of the submissions the Writer has taken, then those waiting
TakenThenWaiting == [i \in 1..Len(processed) |-> processed[i].ev] \o event_rx

NoticeFrameKinds == {"binary", "invalid_event"}

NoticeNext ==
    \/ WriterCheckShutdown
    \/ WriterStep
    \/ WriterWake
    \/ RecvNotice
    \/ \E e \in EventIds : WsEvent(e, MaxSubmit)
    \/ \E kind \in NoticeFrameKinds : WsFrame(kind)
    \/ WsClosed

SpecNotice == WriterInit /\ [][NoticeNext]_vars

\* the notices the Writer got into the channel, in the order of its passes
Emitted ==
    LET IsNoticed(pr) == pr.noticed
        ns == Keep(processed, IsNoticed)
    IN  [i \in 1..Len(ns) |-> [kind |-> ns[i].outcome, ev |-> ns[i].ev]]

\* the notices of the Writer among those sent to the client, in order
Delivered ==
    LET FromWriter(n) == n.kind \notin HandlerNotices \cup {"subscription error"}
    IN  Keep(notices_out, FromWriter)

ReplayStore == StoreOf(<<1, 2, 3, 4>>)

ReplaySubs ==
    {<<NoFilter>>,
     <<[NoFilter EXCEPT !.limit = <<2>>]>>,
     <<[NoFilter EXCEPT !.limit = <<3>>]>>,
     <<[NoFilter EXCEPT !.kinds = << <<1>> >>], [NoFilter EXCEPT !.kinds = << <<3>> >>]>>,
     <<[NoFilter EXCEPT !.kinds = << <<3>> >>, !.limit = <<1>>],
       [NoFilter EXCEPT !.kinds = << <<1>> >>, !.limit = <<2>>]>>}

ReplayInit ==
    /\ HexIdle
    /\ event_table = ReplayStore.events
    /\ tag_table = ReplayStore.tags
    /\ user_verification = NoVerification
    /\ Migrated
    /\ QfIdle
    /\ RelayStart(DefaultSettings)

ReplayNext ==
    \/ \E w \in 1..Len(workers) : WorkerStart(w)
    \/ \E w \in 1..Len(workers) : WorkerNext(w)
    \/ \E w \in 1..Len(workers) : WorkerSend(w)
    \/ \E w \in 1..Len(workers) : WorkerSlowAbort(w)
    \/ \E w \in 1..Len(workers) : WorkerEose(w)
    \/ RecvQueryResult
    \/ \E fs \in ReplaySubs : WsReq([id |-> "s1", filters |-> fs])

SpecReplay == ReplayInit /\ [][ReplayNext]_vars

\* the rows of a replay are in the given order of created_at
RowsOrdered(rows, order) ==
    \A i \in 1..(Len(rows) - 1) :
        IF order = "DESC" THEN Ev(rows[i]).created_at >= Ev(rows[i + 1]).created_at
        ELSE Ev(rows[i]).created_at <= Ev(rows[i + 1]).created_at

\* C22 as stated: the replay of a subscription is newest-first when its
\* filters have a limit and oldest-first when they have none.
C22_ReplayOrdered ==
    \A w \in 1..Len(workers) :
        LET fs == workers[w].sub.filters
        IN  /\ (\A i \in 1..Len(fs) : fs[i].limit # <<>>) => RowsOrdered(workers[w].rows, "DESC")
            /\ (\A i \in 1..Len(fs) : fs[i].limit = <<>>) => RowsOrdered(workers[w].rows, "ASC")

\* C22 amended: the replay of a subscription of one filter is newest-first
\* when the filter has a limit and oldest-first otherwise, and the rows that
\* reached the client are the first rows of it; the replay of a subscription
\* of several filters holds each event once, every one selected by one of
\* the filters.
C22_OneFilterReplayOrdered ==
    \A w \in 1..Len(workers) :
        LET fs == workers[w].sub.filters
            rows == workers[w].rows
        IN  /\ Len(fs) = 1 =>
                  RowsOrdered(rows, IF fs[1].limit # <<>> THEN "DESC" ELSE "ASC")
            /\ workers[w].fwd <= Len(rows)
            /\ \A i, j \in 1..Len(rows) : i < j => rows[i] # rows[j]
            /\ \A i \in 1..Len(rows) :
                  \E k \in 1..Len(fs), r \in 1..Len(event_table) :
                      /\ event_table[r].content = rows[i]
                      /\ r \in SelectedRows(query_from_filter(fs[k]), event_table, tag_table)

\* a replay limited to two events reached the client whole, newest first,
\* and a replay of two filters without limits was not oldest-first
C22_Witness ==
    /\ \E w \in 1..Len(workers) :
          /\ workers[w].sub.filters = <<[NoFilter EXCEPT !.limit = <<2>>]>>
          /\ workers[w].outcome = "completed"
          /\ workers[w].fwd = 2
          /\ Ev(workers[w].rows[1]).created_at > Ev(workers[w].rows[2]).created_at
    /\ \E w \in 1..Len(workers) :
          /\ Len(workers[w].sub.filters) = 2
          /\ Len(workers[w].rows) = 3
          /\ ~RowsOrdered(workers[w].rows, "ASC")

\* the persisted events that satisfy the filter of the last query and are
\* not hidden
Matching == {e \in Persisted : interested_in_event(qfFilter, e) /\ ~Hidden(e)}

\* C23: the replay of a filter with limit n holds at most n events, and they
\* are the n matching non-hidden events with the greatest created_at (all of
\* them when fewer than n match).
C23_LimitKeepsNewest ==
    (qfPhase = "queried" /\ qfFilter.limit # <<>>) =>
        LET n == qfFilter.limit[1]
            got == {qfResult[i] : i \in 1..Len(qfResult)}
        IN  /\ Len(qfResult) <= n
            /\ got \subseteq Matching
            /\ Cardinality(got) = IF Cardinality(Matching) < n THEN Cardinality(Matching) ELSE n
            /\ \A e \in got, m \in Matching \ got : Ev(e).created_at >= Ev(m).created_at

\* ---------------------------------------------------------------------
\* upgrade_db: opening the database and upgrading it step by step
\* ---------------------------------------------------------------------

\* the event rows of the databases that are opened
MigStores == {<<>>, <<2>>, <<2, 4>>}

MigAt(d, from) ==
    [pc |-> "start", cur |-> 0, stmt |-> 1, tx |-> <<>>,
     at_open |-> [db |-> d, tags |-> tag_table],
     at_step |-> [db |-> d, tags |-> tag_table],
     runs |-> 1, from |-> from,
     \* history: the steps this run of upgrade_db has completed, in order
     applied |-> <<>>]

\* The databases a relay is first started on: none, one of version 1, one
\* this build initialised, one of a later build. The versions between are
\* the databases that earlier runs of upgrade_db left.
MigInit ==
    /\ HexIdle
    /\ QfIdle
    /\ RelayStart(DefaultSettings)
    /\ user_verification = NoVerification
    /\ \E v \in {0, 1, DB_VERSION, NewerVersion}, es \in MigStores :
         LET store == StoreOf(es)
         IN  /\ event_table = (IF v = 0 THEN <<>> ELSE store.events)
             /\ tag_table = (IF v \in {0, 1} THEN <<>> ELSE store.tags)
             /\ database = (CASE v = 0 -> NoDb
                              [] v = 1 -> V1Db
                              [] v = DB_VERSION -> FreshDb
                              [] OTHER -> [FreshDb EXCEPT !.user_version = NewerVersion])
             /\ mig = MigAt(database, v)

Committed == [db |-> database, tags |-> tag_table]

\* upgrade_db that initialises a database of a later build from scratch
MigOpenNewerInit ==
    /\ mig.pc = "start"
    /\ LET v == database.user_version
           m == [mig EXCEPT !.cur = v, !.from = v, !.at_open = Committed,
                             !.at_step = Committed, !.applied = <<>>]
       IN  mig' = CASE v > DB_VERSION -> [m EXCEPT !.pc = "step", !.cur = 0, !.stmt = 1]
                    [] v = DB_VERSION -> [m EXCEPT !.pc = "done"]
                    [] OTHER -> [m EXCEPT !.pc = "step", !.stmt = 1]
    /\ UNCHANGED <<hexVars, event_table, tag_table, user_verification, database, qfVars,
                   relayVars>>

\* curr_db_version and the match on curr_version.cmp(&DB_VERSION)
MigOpen ==
    /\ mig.pc = "start"
    /\ LET v == database.user_version
           m == [mig EXCEPT !.cur = v, !.from = v, !.at_open = Committed,
                             !.at_step = Committed, !.applied = <<>>]
       IN  mig' = CASE v > DB_VERSION -> [m EXCEPT !.pc = "panicked"]
                    [] v = DB_VERSION -> [m EXCEPT !.pc = "done"]
                    [] OTHER -> [m EXCEPT !.pc = "step", !.stmt = 1]
    /\ UNCHANGED <<hexVars, event_table, tag_table, user_verification, database, qfVars,
                   relayVars>>

\* The next statement of the step for curr_version. A statement outside a
\* transaction is committed by itself; inside one it changes the
\* transaction's copy, which commit makes the database. A statement that
\* returns an error ends upgrade_db (panic or Err) and drops the open
\* transaction. After the last statement the step returns its version.
MigStmt ==
    /\ mig.pc = "step"
    /\ LET step == StepOf(mig.cur)
           st == step[mig.stmt]
           W == IF mig.tx = <<>> THEN Committed ELSE mig.tx[1]
           Returned(m, c) ==
               IF mig.stmt < Len(step) THEN [m EXCEPT !.stmt = @ + 1]
               ELSE [m EXCEPT !.cur = StepReturns(mig.cur), !.stmt = 1, !.at_step = c,
                              !.applied = Append(@, mig.cur),
                              !.pc = IF StepReturns(mig.cur) = DB_VERSION THEN "done"
                                     ELSE "step"]
           Failed == /\ mig' = [mig EXCEPT !.pc = "failed", !.tx = <<>>]
                     /\ UNCHANGED <<database, tag_table>>
       IN  \E err \in BOOLEAN, upto \in 0..Len(event_table) :
             /\ upto < Len(event_table) => st.op \in {"load_refs", "rebuild_tags"}
             /\ IF err THEN Failed
                ELSE CASE st.op = "begin" ->
                            /\ mig' = Returned([mig EXCEPT !.tx = <<Committed>>], Committed)
                            /\ UNCHANGED <<database, tag_table>>
                       [] st.op = "commit" ->
                            /\ database' = W.db
                            /\ tag_table' = W.tags
                            /\ mig' = Returned([mig EXCEPT !.tx = <<>>], W)
                       [] OTHER ->
                            LET r == Exec(st, W.db, W.tags, event_table, upto)
                                c == [db |-> r.db, tags |-> r.tags]
                            IN  IF ~r.ok THEN Failed
                                ELSE IF mig.tx = <<>>
                                  THEN /\ database' = r.db
                                       /\ tag_table' = r.tags
                                       /\ mig' = Returned(mig, c)
                                  ELSE /\ mig' = Returned([mig EXCEPT !.tx = <<c>>], Committed)
                                       /\ UNCHANGED <<database, tag_table>>
    /\ UNCHANGED <<hexVars, event_table, user_verification, qfVars, relayVars>>

\* the relay is started again on the database the last run left
MigReopen ==
    /\ mig.pc \in {"done", "failed", "panicked"}
    /\ mig.runs < MaxRuns
    /\ mig' = [mig EXCEPT !.pc = "start", !.runs = @ + 1, !.tx = <<>>]
    /\ UNCHANGED <<hexVars, event_table, tag_table, user_verification, database, qfVars,
                   relayVars>>

MigNext ==
    \/ MigOpen
    \/ MigStmt
    \/ MigReopen

SpecMig == MigInit /\ [][MigNext]_vars

\* C24: a run of upgrade_db on a database whose stored version exceeds
\* DB_VERSION aborts and leaves the schema, the rows and the stored version
\* as they were; and no step of any run lowers the stored version.
C24_NewerRefusedVersionMonotone ==
    /\ [](mig.at_open.db.user_version > DB_VERSION /\ mig.pc # "start"
            => /\ mig.pc = "panicked"
               /\ Committed = mig.at_open)
    /\ [][database'.user_version >= database.user_version]_vars

C24_Witness ==
    /\ mig.pc = "panicked"
    /\ mig.runs = MaxRuns
    /\ database.user_version = NewerVersion
    /\ Schema(database) = Schema(FreshDb)

\* what the step for curr_version makes of the database it started on when
\* every statement of it succeeds
StepDone == RunFrom(StepOf(mig.cur), mig.at_step.db, mig.at_step.tags, event_table)

\* C25: a migration step that fails leaves the database as it was when the
\* step started (stored version and data), unless all of the step's changes
\* were already committed together.
C25_StepsAtomic ==
    (mig.pc = "failed" /\ mig.cur \in 1..(DB_VERSION - 1)) =>
        \/ Committed = mig.at_step
        \/ Committed = StepDone

\* C26: a database that upgrade_db brought from a version 1..10 to the
\* current version has the schema of a freshly initialised database: the
\* same tables, columns and indexes.
C26_UpgradedSchemaIsFresh ==
    (mig.pc = "done" /\ mig.from \in 1..(DB_VERSION - 1)) =>
        Schema(database) = Schema(FreshDb)

\* ---------------------------------------------------------------------
\* Tag round trip: tags stored by write_event and by the rebuild of
\* mig_5_to_6, searched by the compiled tag clause
\* ---------------------------------------------------------------------

\* the filters {"#x":[v]} for the tags of the stored events: an even-length
\* hex value, a value that is not hex, an odd-length hex value
TagPairs == {<<"e", <<1, 0>> >>, <<"p", <<NonHexChar>> >>, <<"e", <<1>> >>}

TagFilter(x, v) == [NoFilter EXCEPT !.tags = << << <<x, <<v>> >> >> >>]

TagFilters == {TagFilter(t[1], t[2]) : t \in TagPairs}

\* the events with tags
TagPool == {2, 4}

\* the relay serves once upgrade_db has returned
TagsNext ==
    \/ MigOpen
    \/ MigStmt
    \/ mig.pc = "done" /\ \E e \in TagPool : QfWrite(e)
    \/ mig.pc = "done" /\ \E f \in TagFilters : QfQuery(f)
    \/ QfReset

SpecTags == MigInit /\ [][TagsNext]_vars

\* every tag of the event in row r has a row in the tag table
AllTagsStored(r) ==
    Cardinality({i \in 1..Len(tag_table) : tag_table[i].event_id = r})
        = Len(Ev(event_table[r].content).tags)

HasTag(e, x, v) == \E i \in 1..Len(Ev(e).tags) : Ev(e).tags[i] = <<x, v>>

\* C27: a stored, non-hidden event whose tags are in the tag table and that
\* carries the tag [x, v] is in the result of the filter {"#x":[v]},
\* whether v is even-length hex, odd-length hex or not hex.
C27_TagRoundTrip ==
    \A t \in TagPairs :
        (qfPhase = "queried" /\ qfFilter = TagFilter(t[1], t[2])) =>
            \A r \in 1..Len(event_table) :
                (/\ ~event_table[r].hidden
                 /\ AllTagsStored(r)
                 /\ HasTag(event_table[r].content, t[1], t[2]))
                    => InResult(event_table[r].content)

\* an event with an odd-length hex tag, stored by the rebuild of an upgraded
\* database, is found by that tag
C27_Witness ==
    /\ qfPhase = "queried"
    /\ qfFilter = TagFilter("e", <<1>>)
    /\ mig.from = 1
    /\ \E r \in 1..Len(event_table) :
         /\ AllTagsStored(r)
         /\ HasTag(event_table[r].content, "e", <<1>>)
         /\ InResult(event_table[r].content)

\* ---------------------------------------------------------------------
\* The handler's loop over time: frames it answers on the spot, ping ticks
\* ---------------------------------------------------------------------

\* a connection with a subscription and a running query, the time followed
FramesInit == BusAt([timed |-> TRUE, now |-> 0, full_since |-> NotFull])

FramesNext ==
    \/ \E kind \in NoticeFrames \cup QuietFrames : WsFrame(kind)
    \/ PingTick
    \/ PingTimeout
    \/ WsClosed
    \/ Tick

SpecFrames == FramesInit /\ [][FramesNext]_vars

\* the step consumed a frame of kind k
Consumed(k) == Len(ws_log') = Len(ws_log) + 1 /\ ws_log'[Len(ws_log')].k = k

\* C28: a binary frame, a frame over the size limit, an EVENT over
\* max_event_bytes, an unparseable message and an invalid event each send one
\* NOTICE, leave the connection open and leave the subscriptions and the
\* running queries as they were.
C28_RejectedFramesKeepConnection ==
    [][\A k \in NoticeFrames :
         Consumed(k) =>
             /\ conn_open /\ conn_open'
             /\ subscriptions' = subscriptions
             /\ running_queries' = running_queries
             /\ Len(notices_out') = Len(notices_out) + 1
             /\ notices_out'[Len(notices_out')].kind \in HandlerNotices]_vars

\* a binary frame and an oversized EVENT were answered, the subscription
\* and its query are in place
C28_Witness ==
    /\ conn_open
    /\ \E i, j \in 1..Len(ws_log) : ws_log[i].k = "binary" /\ ws_log[j].k = "event_too_big"
    /\ Len(notices_out) = 2
    /\ subscriptions[BusSub.id] # <<>>
    /\ running_queries[BusSub.id] # <<>>

\* when the last frame before entry i of the history was received (the
\* connection's start when there is none)
RECURSIVE LastFrameAt(_)
LastFrameAt(i) ==
    IF i = 1 THEN 0
    ELSE IF ws_log[i - 1].k # "tick" THEN ws_log[i - 1].at
    ELSE LastFrameAt(i - 1)

\* C29: at every ping tick the connection is closed exactly when more than
\* max_quiet_time has passed since the last received frame of any kind,
\* PING and PONG included, and otherwise a PING is sent and the connection
\* stays open; nothing but such a tick closes a connection for idleness.
C29_IdleCloseOnlyAtTick ==
    /\ \A i \in 1..Len(ws_log) :
         /\ ws_log[i].k = "tick" =>
              /\ ws_log[i].out \in {"close", "ping"}
              /\ ws_log[i].out = "close" <=> ws_log[i].at - LastFrameAt(i) > MaxQuietTime
         /\ ws_log[i].out = "close" => ws_log[i].k = "tick" /\ i = Len(ws_log)
    /\ conn_open <=> \A i \in 1..Len(ws_log) :
                        ws_log[i].out # "close" /\ ws_log[i].k # "closed"

\* a PONG reset the idle period, the next tick sent a PING although the
\* connection was older than max_quiet_time, and a later tick closed it
C29_Witness ==
    /\ ~conn_open
    /\ \E i, j, l \in 1..Len(ws_log) :
         /\ i < j /\ j < l
         /\ ws_log[i].k = "pong" /\ ws_log[i].at > 0
         /\ ws_log[j].k = "tick" /\ ws_log[j].out = "ping" /\ ws_log[j].at > MaxQuietTime
         /\ ws_log[l].k = "tick" /\ ws_log[l].out = "close"

\* C30: the Writer's counter holds the number of events persisted since the
\* last optimize pass, which runs when that number reaches the trigger;
\* duplicates and failed inserts do not advance it.
C30_OptimizeCountsPersisted ==
    optimize_counter = CountOutcomes({"saved"}) % EVENT_COUNT_OPTIMIZE_TRIGGER

\* ---------------------------------------------------------------------
\* Filters that can select nothing: force_no_match, an empty authors or
\* ids list
\* ---------------------------------------------------------------------

\* filters with the lists absent, empty or holding a token
NoMatchFilters ==
    {[NoFilter EXCEPT !.ids = i, !.authors = a, !.kinds = k, !.tags = t, !.force_no_match = n] :
        i \in {<<>>, << <<>> >>, << <<ShortId>> >>},
        a \in {<<>>, << <<>> >>, << <<ShortAuthor>> >>},
        k \in {<<>>, << <<1>> >>},
        t \in {<<>>, << << <<"e", << <<1, 0>> >> >> >> >>},
        n \in BOOLEAN}

NoMatchNext ==
    \/ \E e \in FilterPool : QfWrite(e)
    \/ \E f \in NoMatchFilters : QfQuery(f)
    \/ QfReset

SpecNoMatch == QfInit /\ [][NoMatchNext]_vars

SelectsNothing(f) == f.force_no_match \/ f.authors = << <<>> >> \/ f.ids = << <<>> >>

\* C31: the statement of a filter with force_no_match, an empty authors list
\* or an empty ids list returns no row whatever is stored, and the subquery
\* of a filter with force_no_match has no parameters.
C31_NoMatchFiltersSelectNothing ==
    /\ qfPhase # "idle" /\ SelectsNothing(qfFilter) => qfPhase = "queried" /\ qfResult = <<>>
    /\ \A f \in NoMatchFilters :
          f.force_no_match => /\ query_from_filter(f).params = <<>>
                              /\ query_from_filter(f).components = <<>>

\* an empty authors list alone returned nothing from a store whose events
\* all pass the rest of the filter
C31_Witness ==
    /\ qfPhase = "queried"
    /\ qfFilter = [NoFilter EXCEPT !.authors = << <<>> >>]
    /\ Cardinality(Persisted) >= 2
    /\ \E e \in Persisted : ~Hidden(e)
    /\ qfResult = <<>>

ReqAccepted == Len(workers') = Len(workers) + 1

\* C33: whenever a REQ for sub_id S is accepted while running_queries still
\* holds the one-shot of an earlier query for S, that one-shot has been fired
\* by the end of the step (the other workers' one-shots are left alone), and
\* the map then holds for S the one-shot of the new worker only, unfired.
C33_ReplacingReqFiresPrevious ==
    [][ReqAccepted =>
          LET n == Len(workers')
              s == workers'[n].sub_id
          IN  /\ running_queries'[s] = <<n>>
              /\ ~workers'[n].abandon
              /\ \A t \in SubIds \ {s} : running_queries'[t] = running_queries[t]
              /\ \A w \in 1..Len(workers) :
                    workers'[w].abandon = (workers[w].abandon \/ running_queries[s] = <<w>>)]_vars

\* the second REQ of a sub_id came while the first query was still running:
\* the first worker is cancelled in flight, the second is registered
C33_Witness ==
    /\ Len(workers) = 2
    /\ closes = 0
    /\ conn_open
    /\ workers[1].sub_id = workers[2].sub_id
    /\ workers[1].abandon /\ workers[1].outcome = "running"
    /\ running_queries[workers[2].sub_id] = <<2>>
    /\ ~workers[2].abandon

\* the REQ frames conn.subscribe refuses
RefusedReqs == {[id |-> LongSubId, filters |-> <<f>>] : f \in ReqFilters}

\* C34: a REQ that conn.subscribe refuses leaves the subscription table and
\* the running-query map as they were, fires no one-shot and starts no worker
\* (the workers are the same, each with its one-shot as before), and adds one
\* NOTICE carrying the error to what the client is sent.
C34_RefusedReqChangesNothing ==
    [][\A sub \in RefusedReqs :
          WsReq(sub) =>
              /\ ~subscribe(subscriptions, sub).ok
              /\ subscriptions' = subscriptions
              /\ running_queries' = running_queries
              /\ workers' = workers
              /\ notices_out' = Append(notices_out, [kind |-> "subscription error", ev |-> 0])
              /\ sub_log' = sub_log]_vars

\* a REQ was refused next to a query that is registered and still running
\* with its one-shot unfired
C34_Witness ==
    /\ \E i \in 1..Len(notices_out) : notices_out[i].kind = "subscription error"
    /\ Len(workers) = 1
    /\ workers[1].outcome = "running" /\ workers[1].pc = "next"
    /\ ~workers[1].abandon
    /\ running_queries[workers[1].sub_id] = <<1>>
    /\ subscriptions[workers[1].sub_id] # <<>>

(***************************************************************************)
(* The chain of migration steps.                                           *)
(***************************************************************************)

\* upgrade_db runs to its end: each await returns
SpecMigFair == SpecMig /\ WF_vars(MigOpen) /\ WF_vars(MigStmt)

\* the steps a -> a+1, ..., b-1 -> b, named by the version they start from
Chain(a, b) == [i \in 1..(b - a) |-> a + i - 1]

LiteralSlots(piece) ==
    CASE piece.s = "author=? OR delegated_by=?" -> <<"author=", "delegated_by=">>
      [] piece.s = "(author>? AND author<?) OR (delegated_by>? AND delegated_by<?)" ->
           <<"author>", "author<", "delegated_by>", "delegated_by<">>
      [] piece.s = "author>? OR delegated_by>?" -> <<"author>", "delegated_by>">>
      [] piece.s = "event_hash=?" -> <<"event_hash=">>
      [] piece.s = "(event_hash>? AND event_hash<?)" -> <<"event_hash>", "event_hash<">>
      [] piece.s = "event_hash>?" -> <<"event_hash>">>
      [] piece.s = "e.id IN (SELECT e.id FROM event e LEFT JOIN tag t on e.id=t.event_id WHERE hidden!=TRUE and (name=? AND (" ->
           <<"name=">>
      [] OTHER -> <<>>

\* the placeholders of a text in the order they occur; a bare "?" stands in
\* the IN list that was opened last
RECURSIVE TextSlots(_, _)
TextSlots(text, list) ==
    IF text = <<>> THEN <<>>
    ELSE LET piece == text[1]
             opened == IF piece.s = "value IN (" THEN "value IN"
                       ELSE IF piece.s = "value_hex IN (" THEN "value_hex IN"
                       ELSE list
         IN  (IF piece.s = "?" THEN <<list>> ELSE LiteralSlots(piece))
                 \o TextSlots(Tail(text), opened)

\* the Vec of parameters that query_from_sub returns
SubParams(sub) ==
    LET qs == query_from_sub(sub) IN Flatten([i \in 1..Len(qs) |-> qs[i].params])

Slot(name, v) == [slot |-> name, v |-> v]

\* the values meant for the placeholders of one author token and one id token
AuthorBounds(search) ==
    CASE search.variant = "Exact" ->
           <<Slot("author=", search.ex), Slot("delegated_by=", search.ex)>>
      [] search.variant = "Range" ->
           <<Slot("author>", search.lower), Slot("author<", search.upper),
             Slot("delegated_by>", search.lower), Slot("delegated_by<", search.upper)>>
      [] search.variant = "LowerOnly" ->
           <<Slot("author>", search.lower), Slot("delegated_by>", search.lower)>>

IdBounds(search) ==
    CASE search.variant = "Exact" -> <<Slot("event_hash=", search.ex)>>
      [] search.variant = "Range" ->
           <<Slot("event_hash>", search.lower), Slot("event_hash<", search.upper)>>
      [] search.variant = "LowerOnly" -> <<Slot("event_hash>", search.lower)>>

\* a tag: its name, its text values, its blob values
TagValues(key, val) ==
    LET IsBlob(v) == IsHexTagValue(v)
        IsStr(v)  == ~IsHexTagValue(v)
        strs == Keep(val, IsStr)
        hexes == Keep(val, IsBlob)
    IN  <<Slot("name=", key)>>
            \o [i \in 1..Len(strs) |-> Slot("value IN", strs[i])]
            \o [i \in 1..Len(hexes) |-> Slot("value_hex IN", hex_decode(hexes[i]))]

\* per filter: author bounds, then id bounds, then the tags
FilterValues(f) ==
    IF f.force_no_match THEN <<>>
    ELSE LET auths == IF f.authors = <<>> THEN <<>> ELSE HexSearches(f.authors[1])
             idss  == IF f.ids = <<>> THEN <<>> ELSE HexSearches(f.ids[1])
             tags  == IF f.tags = <<>> THEN <<>> ELSE f.tags[1]
         IN  Flatten([i \in 1..Len(auths) |-> AuthorBounds(auths[i])])
                 \o Flatten([i \in 1..Len(idss) |-> IdBounds(idss[i])])
                 \o Flatten([i \in 1..Len(tags) |-> TagValues(tags[i][1], tags[i][2])])

SubValues(sub) == Flatten([i \in 1..Len(sub.filters) |-> FilterValues(sub.filters[i])])

\* the other filter of a subscription of two: one with parameters of every
\* kind, one that cannot match
SqlSecond ==
    {[NoFilter EXCEPT !.authors = << <<ShortAuthor>> >>, !.ids = << <<FullId>> >>,
                      !.tags = << << <<"p", << <<1, 0>>, <<NonHexChar>> >> >> >> >>,
                      !.limit = <<1>>],
     [NoFilter EXCEPT !.force_no_match = TRUE]}

\* the subscriptions made of the compiled filter: alone, and before and
\* after another filter
SqlSubs ==
    {[filters |-> <<qfFilter>>]}
        \cup {[filters |-> <<qfFilter, g>>] : g \in SqlSecond}
        \cup {[filters |-> <<g, qfFilter>>] : g \in SqlSecond}

\* C36: the compiled statement of a subscription has as many `?`
\* placeholders as query_from_sub returns parameters, and the i-th parameter
\* is the value meant for the i-th placeholder of the text: per filter the
\* bounds of each author token, then of each id token, then for each tag its
\* name, its text values and its blob values, the filters in order.
C36_ParamsMatchPlaceholders ==
    qfPhase = "compiled" =>
        \A sub \in SqlSubs :
            LET slots == TextSlots(sub_text(sub), "")
                params == SubParams(sub)
                want == SubValues(sub)
            IN  /\ Len(slots) = Len(params)
                /\ Len(want) = Len(params)
                /\ \A i \in 1..Len(params) :
                      /\ slots[i] = want[i].slot
                      /\ params[i] = want[i].v

\* a filter with an exact and a range author, an all-f id next to an
\* unparsable one, and two tags with text and blob values: twelve parameters
C36_Witness ==
    /\ qfPhase = "compiled"
    /\ ~qfFilter.force_no_match
    /\ qfFilter.authors = << <<MkKey(1, 15), <<14>> >> >>
    /\ qfFilter.ids = << << <<15>>, <<NonHexChar, 1>> >> >>
    /\ qfFilter.tags = << << <<"t", << <<NonHexChar, 1>>, <<1, 0>> >> >>, <<"e", << <<1>> >> >> >> >>
    /\ Len(SubParams([filters |-> <<qfFilter>>])) = 12
    /\ Len(TextSlots(sub_text([filters |-> <<qfFilter>>]), "")) = 12

\* C37: in the compiled text of every filter no parenthesised OR-group is
\* empty: the "(" that opens the group of a non-empty authors or ids list is
\* followed by an alternative, never directly by its ")", also when entries
\* of the list have no HexSearch; and the statement prepares.
C37_OrGroupsNonEmpty ==
    qfPhase = "compiled" =>
        LET text == query_text(qfFilter)
        IN  /\ \A i \in 1..(Len(text) - 1) : ~(text[i] = Txt("(") /\ text[i + 1] = Txt(")"))
            /\ Prepares(query_from_filter(qfFilter))

(***************************************************************************)
(* Publication follows persistence.                                        *)
(***************************************************************************)

\* C38: every non-ephemeral event on the broadcast bus has a row in the event
\* table (hidden or not), and the Writer has published it as often as
\* write_event returned a non-zero count for it: never for a submission
\* whose insert failed or changed no row.
C38_PublishedIsStored ==
    \A e \in EventIds :
        ~is_ephemeral(Ev(e).kind) =>
            /\ BcastCount(e) > 0 => e \in Persisted
            /\ BcastCount(e) = CountOutcome(e, "saved")

\* an event was stored and published, a later insert of another event
\* failed and published nothing
C38_Witness ==
    /\ Len(processed) = 2
    /\ processed[1].outcome = "saved"
    /\ processed[2].outcome = "error"
    /\ processed[1].ev # processed[2].ev
    /\ bcast = <<processed[1].ev>>
    /\ processed[1].ev \in Persisted
    /\ processed[2].ev \notin Persisted

(***************************************************************************)
(* The running-query map and the subscription table.                       *)
(***************************************************************************)

\* the sub_ids with a one-shot in the map, and those in the table
RunningIds == {s \in SubIds : running_queries[s] # <<>>}

SubscribedIds == {s \in SubIds : subscriptions[s] # <<>>}

\* C39: whatever REQ and CLOSE frames the handler has consumed, accepted or
\* refused, and whether or not the queries have ended, the sub_ids that hold
\* a cancellation one-shot in running_queries are the sub_ids of the
\* connection's subscription table.
C39_MapKeysAreSubscriptions == RunningIds = SubscribedIds

\* two subscriptions were requested and the first one closed; its query had
\* ended before, the other one is still registered
C39_Witness ==
    /\ conn_open
    /\ Len(workers) = 2
    /\ closes = 1
    /\ workers[1].sub_id # workers[2].sub_id
    /\ workers[1].outcome = "completed" /\ workers[1].fired_at = NotFired
    /\ sub_log[workers[1].sub_id].closed
    /\ RunningIds = {workers[2].sub_id}
    /\ SubscribedIds = {workers[2].sub_id}

(***************************************************************************)
(* Results of a replaced query.                                            *)
(***************************************************************************)

\* a later query is registered under the sub_id of worker w
Superseded(w) ==
    /\ running_queries[workers[w].sub_id] # <<>>
    /\ running_queries[workers[w].sub_id] # <<w>>

\* in this step the handler sends the client a row or the EOSE of worker w
Forwards(w) ==
    workers'[w].fwd + workers'[w].eose_fwd > workers[w].fwd + workers[w].eose_fwd

\* the row count at which a worker that has counted k rows polls next
NextPoll(k) == ((k + BatchSize - 1) \div BatchSize) * BatchSize

====
